---- MODULE Spec2Model ----
(***************************************************************************)
(* A model of yed-terminal (src/terminal.cpp): the emulated screen, the    *)
(* CSI/OSC/DCS lexers, Term::update()'s decode loop with its leftover      *)
(* state, the reader thread and the teardown of a terminal.                *)
(*                                                                         *)
(* Bytes are integers 0..255.  A glyph is the sequence of its bytes; the   *)
(* empty glyph GLYPH("") (glyph.c == 0) is the empty sequence.             *)
(***************************************************************************)
EXTENDS Integers, Sequences, FiniteSets, TLC

(***************************************************************************)
(* Byte values of the character literals the source compares against.     *)
(***************************************************************************)
NUL == 0
CTRL_G == 7
CTRL_H == 8
TAB == 9
LF == 10
VT == 11
FF == 12
CR == 13
CTRL_O == 15
ESC == 27
SPACE == 32

\* Ch("x") for the printable ASCII characters the source names.
Ch(c) ==
    CASE c = "!" -> 33 [] c = "#" -> 35 [] c = "%" -> 37 [] c = "(" -> 40
      [] c = "0" -> 48 [] c = "1" -> 49 [] c = "2" -> 50 [] c = "3" -> 51
      [] c = "4" -> 52 [] c = "5" -> 53 [] c = "6" -> 54 [] c = "7" -> 55
      [] c = "8" -> 56 [] c = "9" -> 57 [] c = ":" -> 58 [] c = ";" -> 59
      [] c = "=" -> 61 [] c = ">" -> 62 [] c = "?" -> 63 [] c = "@" -> 64
      [] c = "A" -> 65 [] c = "B" -> 66 [] c = "C" -> 67 [] c = "D" -> 68
      [] c = "E" -> 69 [] c = "F" -> 70 [] c = "G" -> 71 [] c = "H" -> 72
      [] c = "J" -> 74 [] c = "K" -> 75 [] c = "L" -> 76 [] c = "M" -> 77
      [] c = "P" -> 80 [] c = "R" -> 82 [] c = "S" -> 83 [] c = "T" -> 84
      [] c = "X" -> 88 [] c = "[" -> 91 [] c = "\\" -> 92 [] c = "]" -> 93
      [] c = "c" -> 99 [] c = "d" -> 100 [] c = "f" -> 102 [] c = "g" -> 103
      [] c = "h" -> 104 [] c = "k" -> 107 [] c = "l" -> 108 [] c = "m" -> 109
      [] c = "n" -> 110 [] c = "p" -> 112 [] c = "r" -> 114 [] c = "t" -> 116
      [] c = "w" -> 119
      [] c = "x" -> 120 [] c = "y" -> 121 [] c = "~" -> 126
      [] c = "O" -> 79 [] c = "Q" -> 81 [] c = "Z" -> 90

\* MODE_RESET, MODE_PRIV, MODE_XTERM: the CSI mode tags ('!', '?', '>').
MODE_NONE == 0
MODE_RESET == 33
MODE_PRIV == 63
MODE_XTERM == 62

(***************************************************************************)
(* Helpers of the host library (yed) and of libc, as the source uses them. *)
(***************************************************************************)
\* LIMIT(x, lower, upper)
LIMIT(x, lower, upper) ==
    IF x < lower THEN lower ELSE IF x > upper THEN upper ELSE x

MAX(a, b) == IF a >= b THEN a ELSE b

is_digit(c) == c >= 48 /\ c <= 57

\* iscntrl() on a char: the C0 controls and DEL.
iscntrl(c) == (c >= 0 /\ c <= 31) \/ c = 127

\* yed_get_glyph_len(): the length the UTF-8 lead byte announces; a byte that
\* is no lead byte counts as a glyph of its own.
yed_get_glyph_len(c) ==
    IF c < 128 THEN 1
    ELSE IF c >= 192 /\ c <= 223 THEN 2
    ELSE IF c >= 224 /\ c <= 239 THEN 3
    ELSE IF c >= 240 /\ c <= 247 THEN 4
    ELSE 1

\* yed_get_glyph_width(): display columns of a glyph.  The model's wide
\* glyphs are those whose lead byte is 0xE4 (CJK ideographs U+4000..U+4FFF).
WideLeads == {228}

yed_get_glyph_width(g) ==
    IF Len(g) > 0 /\ g[1] \in WideLeads THEN 2 ELSE 1

\* GLYPH("") and the glyphs the source writes itself.
GLYPH_EMPTY == << >>
GLYPH_SPACE == <<SPACE>>
GLYPH_E == <<69>>

\* glyph.c: the first byte of a glyph, 0 for the empty glyph.
GlyphC(g) == IF Len(g) = 0 THEN 0 ELSE g[1]

(***************************************************************************)
(* yed_attrs: flags (bold, underline, inverse, the two 16-colour light     *)
(* bits and the fg/bg colour kinds) and the fg/bg colour values.           *)
(***************************************************************************)
ATTR_KIND_NONE == 0
ATTR_KIND_16 == 1
ATTR_KIND_256 == 2
ATTR_KIND_RGB == 3

ZERO_ATTR ==
    [bold |-> 0, underline |-> 0, inverse |-> 0,
     light_fg |-> 0, light_bg |-> 0,
     fg_kind |-> ATTR_KIND_NONE, bg_kind |-> ATTR_KIND_NONE,
     fg |-> 0, bg |-> 0]

\* attrs.flags != 0
AttrFlagsNonZero(a) ==
    \/ a.bold = 1 \/ a.underline = 1 \/ a.inverse = 1
    \/ a.light_fg = 1 \/ a.light_bg = 1
    \/ a.fg_kind # ATTR_KIND_NONE \/ a.bg_kind # ATTR_KIND_NONE

(***************************************************************************)
(* Cell and Line.                                                          *)
(***************************************************************************)
Cell(g, a) == [glyph |-> g, attrs |-> a]

BlankCell(a) == Cell(GLYPH_EMPTY, a)

\* std::vector::resize(n, fill) on a sequence.
VecResize(v, n, fill) ==
    IF n <= Len(v) THEN SubSeq(v, 1, n)
    ELSE v \o [i \in 1..(n - Len(v)) |-> fill]

\* Line::clear_cells(width, attrs): blank every cell, then resize to width.
clear_cells(line, width, attrs) ==
    [line EXCEPT !.cells = [i \in 1..width |-> BlankCell(attrs)]]

\* Line::Line(width, attrs)
NewLine(width, attrs) ==
    clear_cells([cells |-> << >>, dirty |-> 0], width, attrs)

\* Line::new_by_donation(width, attrs): the old line's storage, cleared.
new_by_donation(line, width, attrs) == clear_cells(line, width, attrs)

(***************************************************************************)
(* Sequence helpers for std::deque / std::vector insert and erase          *)
(* (0-based positions, as in the source).                                  *)
(***************************************************************************)
SeqErase(v, pos) ==
    SubSeq(v, 1, pos) \o SubSeq(v, pos + 2, Len(v))

SeqInsert(v, pos, x) ==
    SubSeq(v, 1, pos) \o <<x>> \o SubSeq(v, pos + 1, Len(v))

SeqPopBack(v) == SubSeq(v, 1, Len(v) - 1)

(***************************************************************************)
(* Screen.  The record holds the fields of struct Screen; `attrs` (a       *)
(* reference to Term::current_attrs in the source) is passed to the        *)
(* operations that read it.  The field ub is not in the source: it is set  *)
(* when an operation indexes outside `lines` or outside a line, which is   *)
(* undefined behaviour in the C++ program.                                 *)
(***************************************************************************)
NewScreen(sb) ==
    [lines |-> << >>, width |-> 0, height |-> 0,
     cursor_row |-> 1, cursor_col |-> 1,
     cursor_row_save |-> 1, cursor_col_save |-> 1,
     attrs_save |-> ZERO_ATTR, cursor_saved |-> 0,
     scroll_t |-> 0, scroll_b |-> 0,
     scrollback |-> sb, ub |-> 0]

UB(s) == [s EXCEPT !.ub = 1]

\* A set_cursor that stores the requested position as it is.
Screen_set_cursor_unclamped(s, row, col) ==
    [s EXCEPT !.cursor_row = row, !.cursor_col = col]

\* Screen::set_cursor(row, col)
Screen_set_cursor(s, row, col) ==
    [s EXCEPT !.cursor_row = LIMIT(row, 1, s.height),
              !.cursor_col = LIMIT(col, 1, s.width)]

\* Screen::move_cursor(rows, cols)
Screen_move_cursor(s, rows, cols) ==
    Screen_set_cursor(s, s.cursor_row + rows, s.cursor_col + cols)

\* Screen::save_cursor()
Screen_save_cursor(s, attrs) ==
    [s EXCEPT !.cursor_row_save = s.cursor_row,
              !.cursor_col_save = s.cursor_col,
              !.attrs_save = attrs,
              !.cursor_saved = 1]

\* Screen::restore_cursor(): the screen part; the caller takes attrs_save.
Screen_restore_cursor(s) ==
    [s EXCEPT !.cursor_row = s.cursor_row_save,
              !.cursor_col = s.cursor_col_save,
              !.cursor_saved = 0]

\* Screen::make_dirty()
make_dirty(s) ==
    [s EXCEPT !.lines = [i \in 1..Len(s.lines) |-> [s.lines[i] EXCEPT !.dirty = 1]]]

\* Screen::_delete_line(which), which 0-based
_delete_line(s, which) ==
    IF which < 0 \/ which >= Len(s.lines) THEN UB(s)
    ELSE [s EXCEPT !.lines = SeqErase(s.lines, which)]

\* Screen::set_scroll(top, bottom)
Screen_set_scroll(s, top, bottom) ==
    [s EXCEPT !.scroll_t = LIMIT(top, 0, s.height),
              !.scroll_b = LIMIT(bottom, 0, s.height)]

\* Screen::sctop() / Screen::scbottom()
Screen_sctop(s) == IF s.scroll_t # 0 THEN s.scroll_t ELSE 1

Screen_scbottom(s) == IF s.scroll_b # 0 THEN s.scroll_b ELSE s.height

\* Screen::set(row, col, g)
Screen_set(s, attrs, row, col, g) ==
    IF row > s.height \/ col > s.width THEN s
    ELSE
      LET r == s.scrollback + row IN
      IF r < 1 \/ r > Len(s.lines) THEN UB(s)
      ELSE
        LET line == s.lines[r]
            n == Len(line.cells)
            w == yed_get_glyph_width(g)
            last == IF col + w - 1 > s.width THEN s.width ELSE col + w - 1
        IN
        IF col < 1 \/ col > n \/ last > n THEN UB(s)
        ELSE
          LET cells == [i \in 1..n |->
                          [glyph |-> IF i = col THEN g ELSE line.cells[i].glyph,
                           attrs |-> IF i >= col /\ i <= last
                                     THEN attrs ELSE line.cells[i].attrs]]
          IN [s EXCEPT !.lines[r] = [cells |-> cells, dirty |-> 1]]

\* A set_current_cell that stamps the default attributes.
Screen_set_current_cell_plain(s, attrs, g) ==
    Screen_set(s, ZERO_ATTR, s.cursor_row, s.cursor_col, g)
\* Screen::set_current_cell(g)
Screen_set_current_cell(s, attrs, g) ==
    Screen_set(s, attrs, s.cursor_row, s.cursor_col, g)

\* Screen::insert(row, col, g): the row is not marked dirty.
Screen_insert(s, attrs, row, col, g) ==
    LET r == s.scrollback + row IN
    IF r < 1 \/ r > Len(s.lines) THEN UB(s)
    ELSE
      LET line == s.lines[r] IN
      IF col < 1 \/ col > Len(line.cells) + 1 THEN UB(s)
      ELSE [s EXCEPT !.lines[r].cells =
                SeqPopBack(SeqInsert(line.cells, col - 1, Cell(g, attrs)))]

\* Screen::del_cell(row, col)
del_cell(s, attrs, row, col) ==
    LET r == s.scrollback + row IN
    IF r < 1 \/ r > Len(s.lines) THEN UB(s)
    ELSE
      LET line == s.lines[r] IN
      IF col < 1 \/ col > Len(line.cells) THEN UB(s)
      ELSE [s EXCEPT !.lines[r] =
                [cells |-> Append(SeqErase(line.cells, col - 1), BlankCell(attrs)),
                 dirty |-> 1]]

\* Screen::clear_row_abs(row)
clear_row_abs(s, attrs, row) ==
    IF row < 1 \/ row > Len(s.lines) THEN UB(s)
    ELSE [s EXCEPT !.lines[row] =
              [clear_cells(s.lines[row], s.width, attrs) EXCEPT !.dirty = 1]]

\* Screen::clear_row(row)
Screen_clear_row(s, attrs, row) == clear_row_abs(s, attrs, s.scrollback + row)

\* The loop that ends scroll_up, scroll_down, insert_line and delete_line:
\* every line of the scroll region is marked dirty.
DirtyRegion(s) ==
    LET lo == s.scrollback + Screen_sctop(s)
        hi == s.scrollback + Screen_scbottom(s)
    IN
    IF lo <= hi /\ (lo < 1 \/ hi > Len(s.lines)) THEN UB(s)
    ELSE [s EXCEPT !.lines = [i \in 1..Len(s.lines) |->
              IF i >= lo /\ i <= hi THEN [s.lines[i] EXCEPT !.dirty = 1]
              ELSE s.lines[i]]]

\* A line operation that deletes its line and loses the replacement.
InsertLineAt_lost(s, new_row, line) == s

\* Insertion of a line before 1-based row new_row, as the four operations do.
InsertLineAt(s, new_row, line) ==
    IF new_row < 1 \/ new_row > Len(s.lines) + 1 THEN UB(s)
    ELSE [s EXCEPT !.lines = SeqInsert(s.lines, new_row - 1, line)]

\* A scroll_up that always takes the oldest history line, region or not.
scroll_up_del_row_oldest(s) == 1
\* Screen::scroll_up(): del_row and new_row
scroll_up_del_row(s) ==
    IF s.scroll_t # 0 THEN s.scrollback + s.scroll_t ELSE 1

scroll_up_new_row(s) == s.scrollback + Screen_scbottom(s)

\* Screen::scroll_up(), the screen part
Screen_scroll_up(s, attrs) ==
    LET del_row == scroll_up_del_row(s)
        new_row == scroll_up_new_row(s)
    IN
    IF del_row < 1 \/ del_row > Len(s.lines) THEN UB(s)
    ELSE
      LET new_line == new_by_donation(s.lines[del_row], s.width, attrs)
          s1 == _delete_line(s, del_row - 1)
          s2 == IF new_row > Len(s1.lines)
                THEN [s1 EXCEPT !.lines = Append(s1.lines, new_line)]
                ELSE InsertLineAt(s1, new_row, new_line)
      IN IF s2.ub = 1 THEN s2 ELSE DirtyRegion(s2)

\* A scroll_down that, with no region set, inserts at the top of the history.
scroll_down_new_row_oldest(s) ==
    IF s.scroll_t # 0 THEN s.scrollback + s.scroll_t ELSE 1
\* Screen::scroll_down(): del_row and new_row
scroll_down_del_row(s) == s.scrollback + Screen_scbottom(s)

scroll_down_new_row(s) ==
    s.scrollback + (IF s.scroll_t # 0 THEN s.scroll_t ELSE 1)

\* Screen::scroll_down(), the screen part
Screen_scroll_down(s, attrs) ==
    LET s1 == _delete_line(s, scroll_down_del_row(s) - 1)
        s2 == IF s1.ub = 1 THEN s1
              ELSE InsertLineAt(s1, scroll_down_new_row(s), NewLine(s.width, attrs))
    IN IF s2.ub = 1 THEN s2 ELSE DirtyRegion(s2)

\* Screen::insert_line(row), the screen part
Screen_insert_line(s, attrs, row) ==
    LET del_row == s.scrollback + Screen_scbottom(s)
        new_row == s.scrollback + row
        s1 == _delete_line(s, del_row - 1)
        s2 == IF s1.ub = 1 THEN s1
              ELSE IF new_row > Len(s1.lines)
              THEN [s1 EXCEPT !.lines = Append(s1.lines, NewLine(s.width, attrs))]
              ELSE InsertLineAt(s1, new_row, NewLine(s.width, attrs))
    IN IF s2.ub = 1 THEN s2 ELSE DirtyRegion(s2)

\* Screen::delete_line(row), the screen part
Screen_delete_line(s, attrs, row) ==
    LET del_row == s.scrollback + row
        new_row == s.scrollback + Screen_scbottom(s)
        s1 == _delete_line(s, del_row - 1)
        s2 == IF s1.ub = 1 THEN s1
              ELSE InsertLineAt(s1, new_row, NewLine(s.width, attrs))
    IN IF s2.ub = 1 THEN s2
       ELSE IF s.scroll_t # 0 \/ s.scroll_b # 0 THEN DirtyRegion(s2)
       ELSE s2

\* Screen::set_dimensions(): the shrinking loop.  While there are too many
\* lines, the last line goes if its first cell is blank, else the first line.
RECURSIVE ShrinkLines(_, _)
ShrinkLines(s, num_lines) ==
    IF s.ub = 1 \/ Len(s.lines) <= num_lines THEN s
    ELSE
      LET line == s.lines[Len(s.lines)] IN
      IF Len(line.cells) = 0 THEN UB(s)
      ELSE IF GlyphC(line.cells[1].glyph) = 0
      THEN ShrinkLines(_delete_line(s, Len(s.lines) - 1), num_lines)
      ELSE ShrinkLines(_delete_line(s, 0), num_lines)

\* Screen::set_dimensions(): max_width
RECURSIVE MaxLineWidth(_, _, _)
MaxLineWidth(lines, i, acc) ==
    IF i > Len(lines) THEN acc
    ELSE MaxLineWidth(lines, i + 1,
                      IF Len(lines[i].cells) > acc THEN Len(lines[i].cells) ELSE acc)

\* A set_dimensions that widens no existing line.
set_dimensions_new_lines_only(s, attrs, width, height) ==
    LET max_width == MaxLineWidth(s.lines, 1, width)
        num_lines == height + s.scrollback
        s1 == IF num_lines > Len(s.lines)
              THEN [s EXCEPT !.lines =
                       s.lines \o [i \in 1..(num_lines - Len(s.lines)) |->
                                      NewLine(max_width, attrs)]]
              ELSE ShrinkLines(s, num_lines)
        s3 == [s1 EXCEPT !.width = width,
                         !.height = height,
                         !.scroll_t = LIMIT(s1.scroll_t, 0, height),
                         !.scroll_b = LIMIT(s1.scroll_b, 0, height),
                         !.cursor_row = LIMIT(s1.cursor_row, 1, height),
                         !.cursor_col = LIMIT(s1.cursor_col, 1, width)]
        lo == MAX(1, s.scrollback - height)
        hi == s.scrollback + height - 1
    IN
    IF s1.ub = 1 THEN s1
    ELSE IF lo <= hi /\ hi > Len(s3.lines) THEN UB(s3)
    ELSE [s3 EXCEPT !.lines = [i \in 1..Len(s3.lines) |->
              IF i >= lo /\ i <= hi THEN [s3.lines[i] EXCEPT !.dirty = 1]
              ELSE s3.lines[i]]]
\* Screen::set_dimensions(width, height)
set_dimensions(s, attrs, width, height) ==
    LET max_width == MaxLineWidth(s.lines, 1, width)
        num_lines == height + s.scrollback
        s1 == IF num_lines > Len(s.lines)
              THEN [s EXCEPT !.lines =
                       s.lines \o [i \in 1..(num_lines - Len(s.lines)) |->
                                      NewLine(max_width, attrs)]]
              ELSE ShrinkLines(s, num_lines)
        s2 == IF max_width > s.width
              THEN [s1 EXCEPT !.lines = [i \in 1..Len(s1.lines) |->
                       [s1.lines[i] EXCEPT !.cells =
                           VecResize(s1.lines[i].cells, max_width, BlankCell(attrs))]]]
              ELSE s1
        s3 == [s2 EXCEPT !.width = width,
                         !.height = height,
                         !.scroll_t = LIMIT(s2.scroll_t, 0, height),
                         !.scroll_b = LIMIT(s2.scroll_b, 0, height),
                         !.cursor_row = LIMIT(s2.cursor_row, 1, height),
                         !.cursor_col = LIMIT(s2.cursor_col, 1, width)]
        lo == MAX(1, s.scrollback - height)
        hi == s.scrollback + height - 1
    IN
    IF s1.ub = 1 THEN s1
    ELSE IF lo <= hi /\ hi > Len(s3.lines) THEN UB(s3)
    ELSE [s3 EXCEPT !.lines = [i \in 1..Len(s3.lines) |->
              IF i >= lo /\ i <= hi THEN [s3.lines[i] EXCEPT !.dirty = 1]
              ELSE s3.lines[i]]]

(***************************************************************************)
(* The host buffer (yed_buffer): a sequence of rows, each the sequence of  *)
(* the glyphs of the row's text.                                           *)
(***************************************************************************)
\* yed_buff_delete_line_no_undo(buffer, row)
BuffDeleteLine(b, row) ==
    IF row < 1 \/ row > Len(b) THEN b ELSE SeqErase(b, row - 1)

\* yed_buff_insert_line_no_undo(buffer, row)
BuffInsertLine(b, row) ==
    IF row < 1 \/ row > Len(b) + 1 THEN b ELSE SeqInsert(b, row - 1, << >>)

\* yed_buff_set_line_no_undo(buffer, row, line)
BuffSetLine(b, row, text) ==
    IF row < 1 \/ row > Len(b) THEN b ELSE [b EXCEPT ![row] = text]

\* Screen::write_to_buffer(): the length a dirty line is trimmed to
RECURSIVE TrimLen(_, _)
TrimLen(cells, n) ==
    IF n < 1 THEN n
    ELSE IF GlyphC(cells[n].glyph) # 0 \/ AttrFlagsNonZero(cells[n].attrs) THEN n
    ELSE TrimLen(cells, n - 1)

\* Screen::write_to_buffer(): the text written for a dirty line
LineText(line) ==
    [i \in 1..TrimLen(line.cells, Len(line.cells)) |->
        IF GlyphC(line.cells[i].glyph) # 0 THEN line.cells[i].glyph ELSE GLYPH_SPACE]

\* Screen::write_to_buffer(): the buffer afterwards
RECURSIVE WriteRows(_, _, _)
WriteRows(s, b, i) ==
    IF i > Len(s.lines) THEN b
    ELSE WriteRows(s,
                   IF s.lines[i].dirty = 1 THEN BuffSetLine(b, i, LineText(s.lines[i]))
                   ELSE b,
                   i + 1)

\* Screen::write_to_buffer(): the screen afterwards (no line is dirty)
ClearDirty(s) ==
    [s EXCEPT !.lines = [i \in 1..Len(s.lines) |-> [s.lines[i] EXCEPT !.dirty = 0]]]

(***************************************************************************)
(* Term.  The record holds the fields of struct Term that the emulator     *)
(* reads and writes; _screen is "main" or "alt".  The field out is the     *)
(* sequence of bytes the current handler has written to master_fd, hung is *)
(* set when a loop of the handler does not terminate without signed        *)
(* overflow, and ub is set when the handler reads an element of an empty   *)
(* vector (none of the three is a field of the source).                    *)
(***************************************************************************)
Scr(t) == IF t._screen = "main" THEN t.main_screen ELSE t.alt_screen

WithScr(t, s) ==
    IF t._screen = "main" THEN [t EXCEPT !.main_screen = s]
    ELSE [t EXCEPT !.alt_screen = s]

TermUB(t) == t.ub = 1 \/ t.main_screen.ub = 1 \/ t.alt_screen.ub = 1

\* write(master_fd, bytes, n)
WriteOut(t, bytes) == [t EXCEPT !.out = @ \o bytes]

\* Term::move_cursor(rows, cols, cancel_wrap)
Term_move_cursor(t, rows, cols, cancel_wrap) ==
    LET t1 == WithScr(t, Screen_move_cursor(Scr(t), rows, cols))
    IN IF cancel_wrap # 0 THEN [t1 EXCEPT !.wrap_next = 0] ELSE t1

\* Term::set_cursor(row, col)
Term_set_cursor(t, row, col) ==
    [WithScr(t, Screen_set_cursor(Scr(t), row, col)) EXCEPT !.wrap_next = 0]

\* Term::save_cursor()
Term_save_cursor(t) == WithScr(t, Screen_save_cursor(Scr(t), t.current_attrs))

\* Term::restore_cursor(): Screen::restore_cursor() also restores the attributes.
Term_restore_cursor(t) ==
    [WithScr(t, Screen_restore_cursor(Scr(t))) EXCEPT !.current_attrs = Scr(t).attrs_save]

\* Term::set_scroll(top, bottom)
Term_set_scroll(t, top, bottom) == WithScr(t, Screen_set_scroll(Scr(t), top, bottom))

\* Term::row(), col(), height(), width(), sctop(), scbottom()
row(t) == Scr(t).cursor_row
col(t) == Scr(t).cursor_col
height(t) == Scr(t).height
width(t) == Scr(t).width
sctop(t) == Screen_sctop(Scr(t))
scbottom(t) == Screen_scbottom(Scr(t))

\* Term::clear_row(row)
Term_clear_row(t, r) == WithScr(t, Screen_clear_row(Scr(t), t.current_attrs, r))

\* Term::clear_page()
RECURSIVE ClearRowsFrom(_, _)
ClearRowsFrom(t, r) ==
    IF r > height(t) THEN t ELSE ClearRowsFrom(Term_clear_row(t, r), r + 1)

\* A clear_page that starts one row above the page.
clear_page_and_history(t) == ClearRowsFrom(t, 0)

clear_page(t) == ClearRowsFrom(t, 1)

\* Term::reset()
reset(t) ==
    LET t1 == [t EXCEPT !.current_attrs = ZERO_ATTR,
                        !.app_keys = 0,
                        !.auto_wrap = 1,
                        !.wrap_next = 0]
    IN clear_page(Term_set_cursor(Term_set_scroll(t1, 0, 0), 1, 1))

\* Term::insert_cell(row, col, g)
insert_cell(t, r, c, g) == WithScr(t, Screen_insert(Scr(t), t.current_attrs, r, c, g))

\* Term::set_cell(row, col, g)
set_cell(t, r, c, g) == WithScr(t, Screen_set(Scr(t), t.current_attrs, r, c, g))

\* Term::set_current_cell(g)
Term_set_current_cell(t, g) ==
    WithScr(t, Screen_set_current_cell(Scr(t), t.current_attrs, g))

\* Term::delete_current_cell()
delete_current_cell(t) ==
    WithScr(t, del_cell(Scr(t), t.current_attrs, row(t), col(t)))

\* Term::scroll_up(): Screen::scroll_up(buffer), screen and host buffer
Term_scroll_up(t) ==
    LET s == Scr(t)
        t1 == WithScr(t, Screen_scroll_up(s, t.current_attrs))
    IN [t1 EXCEPT !.buffer =
           BuffInsertLine(BuffDeleteLine(t.buffer, scroll_up_del_row(s)),
                          scroll_up_new_row(s))]

\* Term::scroll_down(): Screen::scroll_down(buffer), screen and host buffer
Term_scroll_down(t) ==
    LET s == Scr(t)
        t1 == WithScr(t, Screen_scroll_down(s, t.current_attrs))
    IN [t1 EXCEPT !.buffer =
           BuffInsertLine(BuffDeleteLine(t.buffer, scroll_down_del_row(s)),
                          scroll_down_new_row(s))]

\* Term::insert_line(row): Screen::insert_line(row, buffer)
Term_insert_line(t, r) ==
    LET s == Scr(t)
        t1 == WithScr(t, Screen_insert_line(s, t.current_attrs, r))
    IN [t1 EXCEPT !.buffer =
           BuffInsertLine(BuffDeleteLine(t.buffer, s.scrollback + Screen_scbottom(s)),
                          s.scrollback + r)]

\* Term::delete_line(row): Screen::delete_line(row, buffer)
Term_delete_line(t, r) ==
    LET s == Scr(t)
        t1 == WithScr(t, Screen_delete_line(s, t.current_attrs, r))
    IN [t1 EXCEPT !.buffer =
           BuffInsertLine(BuffDeleteLine(t.buffer, s.scrollback + r),
                          s.scrollback + Screen_scbottom(s))]

\* Term::write_to_buffer()
Term_write_to_buffer(t) ==
    LET s == Scr(t)
    IN [WithScr(t, ClearDirty(s)) EXCEPT !.buffer = WriteRows(s, t.buffer, 1)]

\* Term::resize(): the host buffer is brought to n_rows lines.  Each line too
\* many is taken from the end if the first cell of the screen's last line is
\* blank, else from the front; the screen's lines do not change meanwhile.
RECURSIVE ResizeBuffer(_, _, _)
ResizeBuffer(b, n_rows, back_blank) ==
    IF Len(b) < n_rows THEN ResizeBuffer(Append(b, << >>), n_rows, back_blank)
    ELSE IF Len(b) > n_rows
    THEN ResizeBuffer(IF back_blank THEN BuffDeleteLine(b, Len(b)) ELSE BuffDeleteLine(b, 1),
                      n_rows, back_blank)
    ELSE b

\* Term::resize(width, height); ioctl_ok is the outcome of ioctl(TIOCSWINSZ).
resize(t, w, h, ioctl_ok) ==
    IF width(t) = w /\ height(t) = h THEN t
    ELSE IF ~ioctl_ok THEN t
    ELSE
      LET s == Scr(t)
          n_rows == s.scrollback + h
          back_blank ==
              IF Len(s.lines) = 0 THEN TRUE
              ELSE IF Len(s.lines[Len(s.lines)].cells) = 0 THEN TRUE
              ELSE GlyphC(s.lines[Len(s.lines)].cells[1].glyph) = 0
      IN [t EXCEPT !.buffer = ResizeBuffer(t.buffer, n_rows, back_blank),
                   !.main_screen = set_dimensions(t.main_screen, t.current_attrs, w, h),
                   !.alt_screen = set_dimensions(t.alt_screen, t.current_attrs, w, h),
                   !.delay_update = 1]

(***************************************************************************)
(* Term::execute_CSI(csi).  csi is the record the CSI lexer returns.       *)
(***************************************************************************)
\* std::to_string(n) for n >= 0
RECURSIVE to_string(_)
to_string(n) ==
    IF n < 10 THEN <<48 + n>> ELSE to_string(n \div 10) \o <<48 + (n % 10)>>

\* for (col = c1; col <= c2; col += 1) set_cell(r, col, g)   (either direction)
RECURSIVE SetCells(_, _, _, _, _)
SetCells(t, r, c1, c2, g) ==
    IF c1 > c2 THEN t ELSE SetCells(set_cell(t, r, c1, g), r, c1 + 1, c2, g)

\* for (row = r1; row <= r2; row += 1) clear_row(row)   (either direction)
RECURSIVE ClearRows(_, _, _)
ClearRows(t, r1, r2) ==
    IF r1 > r2 THEN t ELSE ClearRows(Term_clear_row(t, r1), r1 + 1, r2)

\* case '@': val blank cells inserted at the cursor with ZERO_ATTR
RECURSIVE InsertCells(_, _)
InsertCells(t, n) ==
    IF n <= 0 THEN t
    ELSE InsertCells(insert_cell(t, row(t), col(t), GLYPH_SPACE), n - 1)

CSI_at(t, val) ==
    LET save == t.current_attrs
        t1 == InsertCells([t EXCEPT !.current_attrs = ZERO_ATTR], val)
    IN [t1 EXCEPT !.current_attrs = save]

\* case 'L', 'M', 'P', 'S', 'T': the operation val times
RECURSIVE InsertLines(_, _)
InsertLines(t, n) ==
    IF n <= 0 \/ TermUB(t) THEN t ELSE InsertLines(Term_insert_line(t, row(t)), n - 1)

RECURSIVE DeleteLines(_, _)
DeleteLines(t, n) ==
    IF n <= 0 \/ TermUB(t) THEN t ELSE DeleteLines(Term_delete_line(t, row(t)), n - 1)

RECURSIVE DeleteCells(_, _)
DeleteCells(t, n) ==
    IF n <= 0 \/ TermUB(t) THEN t ELSE DeleteCells(delete_current_cell(t), n - 1)

RECURSIVE ScrollUpN(_, _)
ScrollUpN(t, n) ==
    IF n <= 0 \/ TermUB(t) THEN t ELSE ScrollUpN(Term_scroll_up(t), n - 1)

RECURSIVE ScrollDownN(_, _)
ScrollDownN(t, n) ==
    IF n <= 0 \/ TermUB(t) THEN t ELSE ScrollDownN(Term_scroll_down(t), n - 1)

\* case 'J'
CSI_J(t, args) ==
    LET a == IF Len(args) = 0 THEN 0 ELSE args[1] IN
    IF a = 0
    THEN SetCells(ClearRows(t, row(t) + 1, height(t)), row(t), col(t), width(t), GLYPH_EMPTY)
    ELSE IF a = 1
    THEN LET t1 == ClearRows(t, 1, row(t) - 1) IN
         \* for (col = 1; col >= this->col(); col += 1): no iteration when the
         \* cursor is right of column 1; else the loop runs until col overflows.
         IF 1 >= col(t)
         THEN [SetCells(t1, row(t), 1, width(t), GLYPH_EMPTY) EXCEPT !.hung = 1]
         ELSE t1
    ELSE IF a = 2 THEN clear_page(t)
    ELSE t

\* case 'K'
CSI_K(t, args) ==
    LET a == IF Len(args) = 0 THEN 0 ELSE args[1] IN
    IF a = 0 THEN SetCells(t, row(t), col(t), width(t), GLYPH_EMPTY)
    ELSE IF a = 1 THEN SetCells(t, row(t), 1, col(t), GLYPH_EMPTY)
    ELSE IF a = 2 THEN Term_clear_row(t, row(t))
    ELSE t

\* RGB_32(r, g, b)
RGB_32(r, g, b) == r * 65536 + g * 256 + b

\* SHIFT()
SHIFT(args) == IF Len(args) > 0 THEN Tail(args) ELSE args

\* An extended colour whose 256-colour form does not consume the index.
SGR_ext_index_left(attrs, args, isfg) ==
    IF Len(args) = 0 THEN <<attrs, args, 1>>
    ELSE
      LET which == args[1]
          a1 == SHIFT(args)
      IN
      IF which = 5 /\ Len(a1) >= 1
      THEN <<IF isfg
             THEN [attrs EXCEPT !.fg_kind = ATTR_KIND_256, !.fg = a1[1],
                                !.light_fg = 0, !.light_bg = 0]
             ELSE [attrs EXCEPT !.bg_kind = ATTR_KIND_256, !.bg = a1[1],
                                !.light_fg = 0, !.light_bg = 0],
             a1, 0>>
      ELSE <<attrs, << >>, 0>>
\* case 'm', code 38 / 48: the extended colour, fg when isfg.  The result is
\* <<attrs, args left, ub>>; ub is 1 when args[0] is read from an empty list.
SGR_ext(attrs, args, isfg) ==
    IF Len(args) = 0 THEN <<attrs, args, 1>>
    ELSE
      LET which == args[1]
          a1 == SHIFT(args)
      IN
      IF which = 2
      THEN IF Len(a1) < 3 THEN <<attrs, << >>, 1>>
           ELSE LET v == RGB_32(a1[1], a1[2], a1[3])
                    at == IF isfg
                          THEN [attrs EXCEPT !.fg_kind = ATTR_KIND_RGB, !.fg = v,
                                             !.light_fg = 0, !.light_bg = 0]
                          ELSE [attrs EXCEPT !.bg_kind = ATTR_KIND_RGB, !.bg = v,
                                             !.light_fg = 0, !.light_bg = 0]
                IN <<at, SHIFT(SHIFT(SHIFT(a1))), 0>>
      ELSE IF which = 5
      THEN IF Len(a1) < 1 THEN <<attrs, a1, 1>>
           ELSE LET at == IF isfg
                          THEN [attrs EXCEPT !.fg_kind = ATTR_KIND_256, !.fg = a1[1],
                                             !.light_fg = 0, !.light_bg = 0]
                          ELSE [attrs EXCEPT !.bg_kind = ATTR_KIND_256, !.bg = a1[1],
                                             !.light_fg = 0, !.light_bg = 0]
                IN <<at, SHIFT(a1), 0>>
      ELSE <<attrs, a1, 0>>

\* case 'm': the codes the switch has a case for, 38 and 48 aside; any other
\* code takes the default branch, which leaves the loop.
SGR_handled ==
    {0, 1, 2, 3, 4, 5, 6, 7, 8, 9, 22, 23, 24, 25, 26, 27, 28, 29, 39, 49}
        \cup (30..37) \cup (40..47) \cup (90..97) \cup (100..107)

\* case 'm': one such code applied to the attributes
SGR_simple(attrs, cmd) ==
    CASE cmd = 0 -> ZERO_ATTR
      [] cmd = 1 -> [attrs EXCEPT !.bold = 1]
      [] cmd = 4 -> [attrs EXCEPT !.underline = 1]
      [] cmd = 7 -> [attrs EXCEPT !.inverse = 1]
      [] cmd = 22 -> [attrs EXCEPT !.bold = 0]
      [] cmd = 24 -> [attrs EXCEPT !.underline = 0]
      [] cmd = 27 -> [attrs EXCEPT !.inverse = 0]
      [] cmd \in {2, 3, 5, 6, 8, 9, 23, 25, 26, 28, 29} -> attrs
      [] cmd \in 30..37 ->
            [attrs EXCEPT !.light_fg = 0, !.fg_kind = ATTR_KIND_16, !.fg = cmd]
      [] cmd = 39 -> [attrs EXCEPT !.fg_kind = ATTR_KIND_NONE, !.fg = 0]
      [] cmd \in 40..47 ->
            [attrs EXCEPT !.light_bg = 0, !.bg_kind = ATTR_KIND_16, !.bg = cmd - 10]
      [] cmd = 49 -> [attrs EXCEPT !.bg_kind = ATTR_KIND_NONE, !.bg = 0]
      [] cmd \in 90..97 ->
            [attrs EXCEPT !.fg_kind = ATTR_KIND_16, !.light_fg = 1, !.fg = cmd - 60]
      [] cmd \in 100..107 ->
            [attrs EXCEPT !.bg_kind = ATTR_KIND_16, !.light_bg = 1, !.bg = cmd - 70]
      [] OTHER -> attrs

\* case 'm': while (csi.args.size()) { ... }
RECURSIVE SGR(_, _)
SGR(t, args) ==
    IF Len(args) = 0 THEN t
    ELSE
      LET cmd == args[1]
          rest == SHIFT(args)
      IN
      IF cmd = 38 \/ cmd = 48
      THEN LET r == SGR_ext(t.current_attrs, rest, cmd = 38) IN
           IF r[3] = 1 THEN [t EXCEPT !.ub = 1]
           ELSE SGR([t EXCEPT !.current_attrs = r[1]], r[2])
      ELSE IF cmd \notin SGR_handled THEN t
      ELSE SGR([t EXCEPT !.current_attrs = SGR_simple(t.current_attrs, cmd)], rest)

\* A CSI ? 1049 h that clears and homes without leaving the active screen.
CSI_priv_no_switch(t, args, on) ==
    LET val == IF Len(args) > 0 THEN args[1] ELSE 1 IN
    CASE val = 1 -> [t EXCEPT !.app_keys = on]
      [] val = 3 -> reset(t)
      [] val = 7 -> [t EXCEPT !.auto_wrap = on]
      [] val = 1049 ->
            IF on = 1
            THEN LET t1 == clear_page(Term_set_cursor(t, 1, 1))
                 IN WithScr(t1, make_dirty(Scr(t1)))
            ELSE LET t1 == [t EXCEPT !._screen = "main"]
                 IN WithScr(t1, make_dirty(Scr(t1)))
      [] OTHER -> t
\* case PRIV('h') / PRIV('l'); on is 1 for 'h'
CSI_priv(t, args, on) ==
    LET val == IF Len(args) > 0 THEN args[1] ELSE 1 IN
    CASE val = 1 -> [t EXCEPT !.app_keys = on]
      [] val = 3 -> reset(t)
      [] val = 7 -> [t EXCEPT !.auto_wrap = on]
      [] val = 1049 ->
            IF on = 1
            THEN LET t1 == clear_page(Term_set_cursor([t EXCEPT !._screen = "alt"], 1, 1))
                 IN WithScr(t1, make_dirty(Scr(t1)))
            ELSE LET t1 == [t EXCEPT !._screen = "main"]
                 IN WithScr(t1, make_dirty(Scr(t1)))
      [] OTHER -> t

\* case 'n'
CSI_n(t, args) ==
    LET val == IF Len(args) > 0 THEN args[1] ELSE 0 IN
    IF val = 53 THEN WriteOut(t, <<ESC, 91, 48, 110>>)
    ELSE IF val = 54
    THEN WriteOut(t, <<ESC, 91>> \o to_string(row(t)) \o <<59>> \o to_string(col(t)) \o <<82>>)
    ELSE t

\* case RESET('p')
CSI_reset_p(t) ==
    LET t1 == clear_page(Term_set_scroll(
                  Term_set_cursor([t EXCEPT !.current_attrs = ZERO_ATTR], 1, 1), 0, 0))
        t2 == [t1 EXCEPT !.app_keys = 0, !._screen = "main"]
    IN [t2 EXCEPT !.main_screen = make_dirty(t2.main_screen)]

\* A CSI r that sets the region whatever the order of its two arguments.
CSI_r_unordered(t, args) ==
    LET t1 == Term_set_cursor(t, 1, 1) IN
    CASE Len(args) = 0 -> Term_set_scroll(t1, 0, 0)
      [] Len(args) = 1 -> Term_set_scroll(t1, args[1], 0)
      [] Len(args) = 2 -> Term_set_scroll(t1, args[1], args[2])
      [] OTHER -> t1
\* case 'r'
CSI_r(t, args) ==
    LET t1 == Term_set_cursor(t, 1, 1) IN
    CASE Len(args) = 0 -> Term_set_scroll(t1, 0, 0)
      [] Len(args) = 1 -> Term_set_scroll(t1, args[1], 0)
      [] Len(args) = 2 ->
            IF args[2] >= args[1] THEN Term_set_scroll(t1, args[1], args[2]) ELSE t1
      [] OTHER -> t1

\* case 'H' / 'f'
CSI_H(t, args) ==
    CASE Len(args) = 0 -> Term_set_cursor(t, 1, 1)
      [] Len(args) = 1 -> Term_set_cursor(t, args[1], 1)
      [] Len(args) = 2 -> Term_set_cursor(t, args[1], args[2])
      [] OTHER -> t

\* val = csi.args.size() ? csi.args[0] : 1
ArgOr1(args) == IF Len(args) > 0 THEN args[1] ELSE 1

execute_CSI(t, csi) ==
    LET c == csi.command
        m == csi.mode
        args == csi.args
        val == ArgOr1(args)
    IN
    CASE m = MODE_NONE /\ c = Ch("@") -> CSI_at(t, val)
      [] m = MODE_NONE /\ c = Ch("A") -> Term_move_cursor(t, -val, 0, 1)
      [] m = MODE_NONE /\ c = Ch("B") -> Term_move_cursor(t, val, 0, 1)
      [] m = MODE_NONE /\ c = Ch("c") -> WriteOut(t, <<ESC, 91, 63, 54, 99>>)
      [] m = MODE_XTERM /\ c = Ch("c") ->
            WriteOut(t, <<ESC, 91, 62, 48, 59, 48, 59, 48, 99>>)
      [] m = MODE_NONE /\ c = Ch("C") -> Term_move_cursor(t, 0, val, 1)
      [] m = MODE_NONE /\ c = Ch("D") -> Term_move_cursor(t, 0, -val, 1)
      [] m = MODE_NONE /\ c = Ch("E") ->
            LET t1 == Term_move_cursor(t, val, 0, 1) IN Term_set_cursor(t1, row(t1), 1)
      [] m = MODE_NONE /\ c = Ch("F") ->
            LET t1 == Term_move_cursor(t, -val, 0, 1) IN Term_set_cursor(t1, row(t1), 1)
      [] m = MODE_NONE /\ c = Ch("d") -> Term_set_cursor(t, val, col(t))
      [] m = MODE_NONE /\ c \in {Ch("f"), Ch("H")} -> CSI_H(t, args)
      [] m = MODE_NONE /\ c = Ch("G") -> Term_set_cursor(t, row(t), val)
      [] m = MODE_NONE /\ c = Ch("J") -> CSI_J(t, args)
      [] m = MODE_NONE /\ c = Ch("K") -> CSI_K(t, args)
      [] m = MODE_NONE /\ c = Ch("L") -> InsertLines(t, val)
      [] m = MODE_NONE /\ c = Ch("M") -> DeleteLines(t, val)
      [] m = MODE_NONE /\ c = Ch("P") -> DeleteCells(t, val)
      [] m = MODE_PRIV /\ c = Ch("h") -> CSI_priv(t, args, 1)
      [] m = MODE_PRIV /\ c = Ch("l") -> CSI_priv(t, args, 0)
      [] m = MODE_NONE /\ c = Ch("m") ->
            SGR(t, IF Len(args) = 0 THEN <<0>> ELSE args)
      [] m = MODE_NONE /\ c = Ch("n") -> CSI_n(t, args)
      [] m = MODE_RESET /\ c = Ch("p") -> CSI_reset_p(t)
      [] m = MODE_NONE /\ c = Ch("r") -> CSI_r(t, args)
      [] m = MODE_NONE /\ c = Ch("S") -> ScrollUpN(t, val)
      [] m = MODE_NONE /\ c = Ch("T") -> ScrollDownN(t, val)
      [] m = MODE_NONE /\ c = Ch("X") ->
            SetCells(t, row(t), col(t), col(t) + val - 1, GLYPH_EMPTY)
      [] OTHER -> t

(***************************************************************************)
(* The lexers.  buf is the byte window, which ends with the terminating 0  *)
(* that update() appends; k is the 1-based position of *str.               *)
(***************************************************************************)
IS_DELIM(c) == c \in {Ch(";"), Ch(":"), Ch("?"), SPACE, Ch(">"), Ch("!"), Ch("%")}

IS_FINAL(c) == c >= 64 /\ c <= 126

NewCSI == [args |-> << >>, command |-> 0, len |-> 0, complete |-> 0, mode |-> MODE_NONE]

RECURSIVE CSI_loop(_, _, _), CSI_digits(_, _, _, _), CSI_delims(_, _, _)

\* while (!IS_FINAL(c) && c != '\e') { ... } and what follows the loop
CSI_loop(buf, k, r) ==
    LET c == buf[k] IN
    IF IS_FINAL(c) THEN [r EXCEPT !.command = c, !.complete = 1]
    ELSE IF c = ESC THEN [r EXCEPT !.len = @ - 1]
    ELSE IF ~is_digit(c) /\ ~IS_DELIM(c) THEN r
    ELSE CSI_digits(buf, k, r, 0)

\* while (is_digit(c)) { sarg += c; NEXT(); }, then the argument is pushed
CSI_digits(buf, k, r, acc) ==
    LET c == buf[k] IN
    IF is_digit(c)
    THEN IF buf[k + 1] = 0 THEN r
         ELSE CSI_digits(buf, k + 1, [r EXCEPT !.len = @ + 1], acc * 10 + (c - 48))
    ELSE CSI_delims(buf, k, [r EXCEPT !.args = Append(@, acc)])

\* while (IS_DELIM(c)) { NEXT(); }
CSI_delims(buf, k, r) ==
    LET c == buf[k] IN
    IF IS_DELIM(c)
    THEN IF buf[k + 1] = 0 THEN r
         ELSE CSI_delims(buf, k + 1, [r EXCEPT !.len = @ + 1])
    ELSE CSI_loop(buf, k, r)

\* The first loop: leading delimiters set the mode tag, ';' pushes a 0.
RECURSIVE CSI_lead(_, _, _)
CSI_lead(buf, k, r) ==
    LET c == buf[k] IN
    IF IS_DELIM(c)
    THEN LET r1 == [r EXCEPT
                      !.mode = IF c = Ch("!") THEN MODE_RESET
                               ELSE IF c = Ch("?") THEN MODE_PRIV
                               ELSE IF c = Ch(">") THEN MODE_XTERM
                               ELSE @,
                      !.args = IF c = Ch(";") THEN Append(@, 0) ELSE @]
         IN IF buf[k + 1] = 0 THEN r1
            ELSE CSI_lead(buf, k + 1, [r1 EXCEPT !.len = @ + 1])
    ELSE CSI_loop(buf, k, r)

\* CSI::CSI(str)
CSI(buf, k) ==
    IF buf[k] = 0 THEN NewCSI ELSE CSI_lead(buf, k, [NewCSI EXCEPT !.len = 1])

NewOSC == [command |-> 0, len |-> 0, arg |-> << >>, complete |-> 0]

\* while (c && c != CTRL_G && c != '\e') { arg += c; NEXT(); } and the end
RECURSIVE OSC_arg(_, _, _)
OSC_arg(buf, k, r) ==
    LET c == buf[k] IN
    IF c # CTRL_G /\ c # ESC
    THEN IF buf[k + 1] = 0 THEN [r EXCEPT !.arg = Append(@, c)]
         ELSE OSC_arg(buf, k + 1, [r EXCEPT !.arg = Append(@, c), !.len = @ + 1])
    ELSE IF c = ESC
    THEN IF buf[k + 1] = 0 THEN r
         ELSE IF buf[k + 1] = Ch("\\") THEN [r EXCEPT !.len = @ + 1, !.complete = 1]
         ELSE r
    ELSE [r EXCEPT !.complete = 1]

\* while (is_digit(c)) { scmd += c; NEXT(); }, then the command is scanned
RECURSIVE OSC_cmd(_, _, _, _)
OSC_cmd(buf, k, r, acc) ==
    LET c == buf[k] IN
    IF is_digit(c)
    THEN IF buf[k + 1] = 0 THEN r
         ELSE OSC_cmd(buf, k + 1, [r EXCEPT !.len = @ + 1], acc * 10 + (c - 48))
    ELSE IF c # Ch(";") /\ c # CTRL_G THEN [r EXCEPT !.command = acc]
    ELSE OSC_arg(buf, k, [r EXCEPT !.command = acc])

\* OSC::OSC(str)
OSC(buf, k) ==
    IF buf[k] = 0 THEN NewOSC ELSE OSC_cmd(buf, k, [NewOSC EXCEPT !.len = 1], 0)

NewDCS == [len |-> 0, complete |-> 0, str |-> << >>]

\* while (c) { ... }
RECURSIVE DCS_loop(_, _, _)
DCS_loop(buf, k, r) ==
    LET c == buf[k] IN
    IF c = ESC
    THEN IF buf[k + 1] = 0 THEN r
         ELSE IF buf[k + 1] = Ch("\\") THEN [r EXCEPT !.len = @ + 1, !.complete = 1]
         ELSE r
    ELSE IF buf[k + 1] = 0 THEN [r EXCEPT !.str = Append(@, c)]
    ELSE DCS_loop(buf, k + 1, [r EXCEPT !.str = Append(@, c), !.len = @ + 1])

\* DCS::DCS(str)
DCS(buf, k) ==
    IF buf[k] = 0 THEN NewDCS ELSE DCS_loop(buf, k, [NewDCS EXCEPT !.len = 1])

\* Term::execute_OSC(osc): only OSC 0 changes the emulator's state; the
\* colour queries 4, 10 and 11 answer "?" with a fixed white.
execute_OSC(t, osc) ==
    IF osc.command = 0 THEN [t EXCEPT !.title = osc.arg]
    ELSE IF osc.command \in {4, 10, 11} /\ osc.arg = <<Ch("?")>>
    THEN WriteOut(t, <<ESC, 93>> \o to_string(osc.command)
                     \o <<59, 114, 103, 98, 58, 50, 53, 53, 50, 53, 53, 47,
                          50, 53, 53, 50, 53, 53, 47, 50, 53, 53, 50, 53, 53, 7>>)
    ELSE t

(***************************************************************************)
(* Term::update().  The decode loop works on a record d:                   *)
(*   t                       the Term                                      *)
(*   incomplete_csi, incomplete_esc, incomplete_utf8                       *)
(*                           the function's static leftover state          *)
(*   last, csi_countdown, dectst, setcharset                               *)
(*                           its locals (last holds last.c)                *)
(***************************************************************************)
\* yed_get_tab_width()
TabWidth == 2

\* buf[from..to]; a position past the end of buf is outside the vector, and
\* what is read there is not defined: junk stands for it.
BytesAt(buf, from, to, junk) ==
    [j \in 1..(to - from + 1) |->
        IF from + j - 1 <= Len(buf) THEN buf[from + j - 1] ELSE junk]

\* case '\n', '\f', '\v' and ESC D / ESC E: down one row, scrolling at the
\* bottom of the scroll region
LineFeed(t) ==
    IF row(t) = scbottom(t) THEN Term_scroll_up(t) ELSE Term_move_cursor(t, 1, 0, 1)

\* case '\t'
RECURSIVE TabLoop(_)
TabLoop(t) ==
    IF col(t) = width(t) THEN t
    ELSE LET t1 == Term_move_cursor(Term_set_current_cell(t, GLYPH_SPACE), 0, 1, 1)
         IN IF col(t1) % TabWidth # 1 THEN TabLoop(t1) ELSE t1

\* put / put_utf8: the glyph g of len bytes at position i of buf
Put(d, buf, i, len, junk) ==
    IF len > 1 /\ i + len >= Len(buf)
    THEN [d EXCEPT !.incomplete_utf8 = @ \o BytesAt(buf, i, i + len - 1, junk)]
    ELSE
      LET g == SubSeq(buf, i, i + len - 1)
          t == d.t
          t1 == IF t.wrap_next # 0
                THEN [(IF col(t) = width(t)
                       THEN LET t2 == LineFeed(t) IN Term_set_cursor(t2, row(t2), 1)
                       ELSE t) EXCEPT !.wrap_next = 0]
                ELSE t
          t3 == Term_set_current_cell(t1, g)
          t4 == IF col(t3) = width(t3) /\ t3.auto_wrap # 0
                THEN [t3 EXCEPT !.wrap_next = 1]
                ELSE Term_move_cursor(t3, 0, yed_get_glyph_width(g), 0)
      IN [d EXCEPT !.t = t4]

\* default: put:; if (iscntrl(git->c)) { goto next; }
PutUnlessCntrl(d, buf, i, junk) ==
    IF iscntrl(buf[i]) THEN d ELSE Put(d, buf, i, yed_get_glyph_len(buf[i]), junk)

\* if (dectst) { ... }: ESC # 8 fills the page with E
RECURSIVE FillE(_, _)
FillE(t, r) ==
    IF r > height(t) THEN t
    ELSE FillE(SetCells(t, r, col(t), width(t), GLYPH_E), r + 1)

\* if (last.c == '\e') { switch (c) ... case '[' }
EscCSI(d, buf, i) ==
    LET csi == CSI(buf, i + 1) IN
    IF csi.complete = 1
    THEN [d EXCEPT !.t = execute_CSI(d.t, csi), !.csi_countdown = csi.len]
    ELSE
      LET d1 == IF buf[i + 1 + csi.len] = 0
                THEN [d EXCEPT !.incomplete_csi =
                         <<ESC, Ch("[")>> \o SubSeq(buf, i + 1, i + csi.len)]
                ELSE d
      IN [d1 EXCEPT !.csi_countdown = Len(d1.incomplete_csi)]

\* case ']'
EscOSC(d, buf, i) ==
    LET osc == OSC(buf, i + 1) IN
    IF osc.complete = 1
    THEN [d EXCEPT !.t = execute_OSC(d.t, osc), !.csi_countdown = osc.len]
    ELSE
      LET d1 == IF buf[i + 1 + osc.len] = 0
                THEN [d EXCEPT !.incomplete_csi =
                         <<ESC, Ch("]")>> \o SubSeq(buf, i + 1, i + osc.len)]
                ELSE d
      IN [d1 EXCEPT !.csi_countdown = Len(d1.incomplete_csi)]

\* case 'k': case 'P'
EscDCS(d, buf, i) ==
    LET dcs == DCS(buf, i + 1) IN
    IF dcs.complete = 1
    THEN [d EXCEPT !.csi_countdown = dcs.len]
    ELSE [d EXCEPT !.csi_countdown = dcs.len,
                   !.incomplete_csi =
                       <<ESC, Ch("P")>> \o SubSeq(buf, i + 1, i + dcs.len)]

\* if (last.c == '\e') { switch (c) { ... } goto next; }
EscSwitch(d, buf, i, junk) ==
    LET c == buf[i]
        t == d.t
    IN
    CASE c = Ch("\\") -> d
      [] c = Ch("[") -> EscCSI(d, buf, i)
      [] c = Ch("]") -> EscOSC(d, buf, i)
      [] c \in {Ch("k"), Ch("P")} -> EscDCS(d, buf, i)
      [] c = Ch("#") -> [d EXCEPT !.dectst = 1]
      [] c \in {Ch("="), Ch(">"), Ch("g")} -> d
      [] c = Ch("(") -> [d EXCEPT !.setcharset = 1]
      [] c = Ch("7") -> [d EXCEPT !.t = Term_save_cursor(t)]
      [] c = Ch("8") ->
            [d EXCEPT !.t = IF Scr(t).cursor_saved # 0
                            THEN Term_restore_cursor(t)
                            ELSE [Term_set_cursor(t, 1, 1) EXCEPT !.current_attrs = ZERO_ATTR]]
      [] c \in {Ch("D"), Ch("E")} ->
            LET t1 == LineFeed(t) IN
            [d EXCEPT !.t = IF c = Ch("E") THEN Term_set_cursor(t1, row(t1), 1) ELSE t1]
      [] c = Ch("M") ->
            [d EXCEPT !.t = IF row(t) = sctop(t) THEN Term_scroll_down(t)
                            ELSE Term_move_cursor(t, -1, 0, 1)]
      [] OTHER -> PutUnlessCntrl(d, buf, i, junk)

\* switch (c) { ... }
MainSwitch(d, buf, i, junk) ==
    LET c == buf[i]
        t == d.t
    IN
    CASE c = 0 -> d
      [] c = ESC ->
            [d EXCEPT !.incomplete_csi = IF buf[i + 1] = 0 THEN <<ESC>> ELSE << >>]
      [] c = CR -> [d EXCEPT !.t = Term_set_cursor(t, row(t), 1)]
      [] c = CTRL_H -> [d EXCEPT !.t = Term_move_cursor(t, 0, -1, 1)]
      [] c \in {FF, VT, LF} -> [d EXCEPT !.t = LineFeed(t)]
      [] c = TAB -> [d EXCEPT !.t = TabLoop(t)]
      [] c \in {CTRL_G, CTRL_O} -> d
      [] OTHER -> PutUnlessCntrl(d, buf, i, junk)

\* One pass of the body of yed_glyph_traverse_n, for the glyph at position i
DecodeGlyph(d, buf, i, junk) ==
    IF d.csi_countdown > 0 THEN [d EXCEPT !.csi_countdown = @ - 1]
    ELSE
      LET c == buf[i]
          d1 == IF yed_get_glyph_len(c) > 1
                THEN Put(d, buf, i, yed_get_glyph_len(c), junk)
                ELSE IF d.dectst # 0
                THEN [d EXCEPT !.t = IF c = Ch("8") THEN FillE(reset(d.t), 1) ELSE d.t,
                               !.dectst = 0]
                ELSE IF d.setcharset # 0 THEN [d EXCEPT !.setcharset = 0]
                ELSE IF d.last = ESC THEN EscSwitch(d, buf, i, junk)
                ELSE MainSwitch(d, buf, i, junk)
      IN [d1 EXCEPT !.last = c]

\* yed_glyph_traverse_n(s, len, git) { ... }
RECURSIVE DecodeLoop(_, _, _, _)
DecodeLoop(d, buf, i, junk) ==
    IF i > Len(buf) - 1 THEN d
    ELSE DecodeLoop(DecodeGlyph(d, buf, i, junk), buf,
                    i + yed_get_glyph_len(buf[i]), junk)

\* The leftover prepended to the new bytes: one of the three, in this order.
Prepended(inc, data) ==
    IF inc.esc # 0 THEN <<ESC>> \o data
    ELSE IF Len(inc.csi) > 0 THEN inc.csi \o data
    ELSE IF Len(inc.utf8) > 0 THEN inc.utf8 \o data
    ELSE data

\* ... and the leftover state once it is prepended
AfterPrepend(inc) ==
    IF inc.esc # 0 THEN [inc EXCEPT !.esc = 0]
    ELSE IF Len(inc.csi) > 0 THEN [inc EXCEPT !.csi = << >>]
    ELSE IF Len(inc.utf8) > 0 THEN [inc EXCEPT !.utf8 = << >>]
    ELSE inc

\* Term::update(): the decode buffer, i.e. the leftover and the new bytes less
\* a trailing ESC, and the terminating 0 that is pushed.
TrailingEsc(buff0) == Len(buff0) > 0 /\ buff0[Len(buff0)] = ESC

DecodeBuffer(buff0) ==
    (IF TrailingEsc(buff0) THEN SeqPopBack(buff0) ELSE buff0) \o <<0>>

\* Term::update(): the locals and the statics when the traversal starts
DecodeStart(t, inc0, trailing) ==
    [t |-> [t EXCEPT !.out = << >>],
     incomplete_csi |-> inc0.csi,
     incomplete_esc |-> IF trailing THEN 1 ELSE inc0.esc,
     incomplete_utf8 |-> inc0.utf8,
     last |-> 0, csi_countdown |-> 0, dectst |-> 0, setcharset |-> 0]

\* Term::update(): after the traversal, write_to_buffer()
DecodeEnd(d) ==
    [t |-> Term_write_to_buffer(d.t),
     inc |-> [esc |-> d.incomplete_esc, csi |-> d.incomplete_csi,
              utf8 |-> d.incomplete_utf8],
     consumed |-> 1]

\* Term::update() on the bytes `data` of data_buff, from the leftover state
\* inc.  The result is [t, inc, consumed]; consumed is 0 when the call only
\* clears delay_update and leaves data_buff as it is.
update(t, inc, data, junk) ==
    IF t.delay_update # 0
    THEN [t |-> [t EXCEPT !.delay_update = 0], inc |-> inc, consumed |-> 0]
    ELSE DecodeEnd(DecodeLoop(DecodeStart(t, AfterPrepend(inc),
                                          TrailingEsc(Prepended(inc, data))),
                              DecodeBuffer(Prepended(inc, data)), 1, junk))

(***************************************************************************)
(* Term::keys(): the keys the host hands to the terminal, as the names the *)
(* source gives them; a key that is a plain character is that character.   *)
(***************************************************************************)
\* IS_MOUSE(key), with MOUSE_BUTTON(key) the name itself
MouseKeys == {"MOUSE_WHEEL_UP", "MOUSE_WHEEL_DOWN", "MOUSE_BUTTON_LEFT"}

\* The prefixed keys without Home and End.
ArrowKeys_arrows_only == {"ARROW_UP", "ARROW_DOWN", "ARROW_RIGHT", "ARROW_LEFT"}
\* The first switch: the keys that get the ESC O / ESC [ prefix
ArrowKeys ==
    {"ARROW_UP", "ARROW_DOWN", "ARROW_RIGHT", "ARROW_LEFT", "HOME_KEY", "END_KEY"}

\* The second switch: what is written for the key after the prefix
KeyTail(key) ==
    CASE key = "ARROW_UP" -> <<Ch("A")>>
      [] key = "ARROW_DOWN" -> <<Ch("B")>>
      [] key = "ARROW_RIGHT" -> <<Ch("C")>>
      [] key = "ARROW_LEFT" -> <<Ch("D")>>
      [] key = "DEL_KEY" -> <<Ch("P")>>
      [] key = "HOME_KEY" -> <<Ch("H")>>
      [] key = "END_KEY" -> <<Ch("F")>>
      [] key = "PAGE_UP" -> <<ESC, Ch("["), Ch("5"), Ch("~")>>
      [] key = "PAGE_DOWN" -> <<ESC, Ch("["), Ch("6"), Ch("~")>>
      [] key = "SHIFT_TAB" -> <<ESC, Ch("["), Ch("Z")>>
      [] key = "FN1" -> <<ESC, Ch("O"), Ch("P")>>
      [] key = "FN2" -> <<ESC, Ch("O"), Ch("Q")>>
      [] key = "FN3" -> <<ESC, Ch("O"), Ch("R")>>
      [] key = "FN4" -> <<ESC, Ch("O"), Ch("S")>>
      [] key = "FN5" -> <<ESC, Ch("["), Ch("1"), Ch("5"), Ch("~")>>
      [] key = "FN6" -> <<ESC, Ch("["), Ch("1"), Ch("7"), Ch("~")>>
      [] key = "FN7" -> <<ESC, Ch("["), Ch("1"), Ch("8"), Ch("~")>>
      [] key = "FN8" -> <<ESC, Ch("["), Ch("1"), Ch("9"), Ch("~")>>
      [] key = "FN9" -> <<ESC, Ch("["), Ch("2"), Ch("0"), Ch("~")>>
      [] key = "FN10" -> <<ESC, Ch("["), Ch("2"), Ch("1"), Ch("~")>>
      [] key = "FN11" -> <<ESC, Ch("["), Ch("2"), Ch("3"), Ch("~")>>
      [] key = "FN12" -> <<ESC, Ch("["), Ch("2"), Ch("4"), Ch("~")>>
      [] key = "MENU_KEY" -> <<ESC, Ch("["), Ch("2"), Ch("9"), Ch("~")>>
      [] OTHER -> <<Ch(key)>>

\* One pass of the loop of Term::keys() after the mouse test: the bytes
\* written to master_fd for key
key_bytes(t, key) ==
    (IF key \in ArrowKeys
     THEN <<ESC, IF t.app_keys # 0 THEN Ch("O") ELSE Ch("[")>>
     ELSE << >>) \o KeyTail(key)

\* Term::keys(len, keys)
RECURSIVE Term_keys(_, _)
Term_keys(t, keys) ==
    IF Len(keys) = 0 THEN t
    ELSE IF keys[1] \in MouseKeys \ {"MOUSE_WHEEL_UP", "MOUSE_WHEEL_DOWN"}
    THEN Term_keys(t, Tail(keys))
    ELSE
      LET key == IF keys[1] = "MOUSE_WHEEL_UP" THEN "ARROW_UP"
                 ELSE IF keys[1] = "MOUSE_WHEEL_DOWN" THEN "ARROW_DOWN"
                 ELSE keys[1]
      IN Term_keys(WriteOut(t, key_bytes(t, key)), Tail(keys))

(***************************************************************************)
(* The state.                                                              *)
(*   term       the Term (screens, attributes, modes, host buffer)         *)
(*   inc        update()'s static leftover state: esc (incomplete_esc),    *)
(*              csi (incomplete_csi), utf8 (incomplete_utf8)               *)
(*   data_buff  Term::data_buff, the bytes read and not yet decoded        *)
(*   nreads     how many chunks the reader has appended so far             *)
(*   The threads of one terminal (read_thread and the host's main thread): *)
(*   rpc            where read_thread is: "poll", "read", "done"           *)
(*   mpc            where the main thread is: "idle", inside update()      *)
(*                  ("u_lock", "u_decode"), inside ~Term ("d_signal",      *)
(*                  "d_close", "d_join", "d_free"), "gone"                 *)
(*   buff_lock      who holds Term::buff_lock: "free" or "update"          *)
(*   update_waiting Term::update_waiting                                   *)
(*   buff           update()'s local buff after the swap                   *)
(*   pty            the bytes the shell wrote that read() has not returned *)
(*   produced       how many bytes the shell has written in all            *)
(*   shell_alive    the shell process has not exited                       *)
(*   process_exited Term::process_exited                                   *)
(*   cancelled      the byte ~Term wrote to sig_fds[1] is in the pipe      *)
(*   master_open    master_fd and slave_fd are open                        *)
(*   forced         yed_force_update() was called and not yet served       *)
(*   wstatus        the exit status of the shell process (0 while it runs) *)
(*   reaped         waitpid() has returned the shell's status              *)
(*   bad_shell      Term::bad_shell                                        *)
(*   cerr           yed_cerr("Failed to start shell ...") was called       *)
(***************************************************************************)
VARIABLES term, inc, data_buff, nreads,
          rpc, mpc, buff_lock, update_waiting, buff, pty, produced,
          shell_alive, process_exited, cancelled, master_open, forced,
          wstatus, reaped, bad_shell, cerr,
          term_b, data_buff_b, state

\* The exit of the shell as the plugin sees it.
cvars == <<wstatus, reaped, bad_shell, cerr>>

\* The plugin's state outside this terminal and its threads: a second
\* terminal of the registry with its data_buff, and the fields of State that
\* the key-sequence handling reads and writes (see InitState).
xvars == <<term_b, data_buff_b, state>>

tvars == <<rpc, mpc, buff_lock, update_waiting, buff, pty, produced,
           shell_alive, process_exited, cancelled, master_open, forced, cvars,
           xvars>>

vars == <<term, inc, data_buff, nreads, tvars>>

\* The model's sizes.  The constructor's page is DEFAULT_WIDTH x DEFAULT_HEIGHT
\* (80 x 24) over get_scrollback() history lines; the model scales them down.
InitWidth == 3
InitHeight == 2
Scrollback == 1
MaxReads == 3

\* The frame sizes the host reports to fit_to_frames().
Widths == {InitWidth - 1, InitWidth}
Heights == {InitHeight - 1, InitHeight}

\* What read() can leave past the end of the vector (see BytesAt).
Junk == {0, 65}

\* Term::Term(): the fields' initialisers, then resize(DEFAULT_WIDTH,
\* DEFAULT_HEIGHT) and set_cursor(1, 1) in the parent branch.
NewTerm ==
    [buffer |-> << << >> >>,
     current_attrs |-> ZERO_ATTR,
     main_screen |-> NewScreen(Scrollback),
     alt_screen |-> NewScreen(Scrollback),
     _screen |-> "main",
     app_keys |-> 0, auto_wrap |-> 1, wrap_next |-> 0,
     title |-> << >>,
     delay_update |-> 0, term_mode |-> 1,
     out |-> << >>, hung |-> 0, ub |-> 0]

InitTerm == Term_set_cursor(resize(NewTerm, InitWidth, InitHeight, TRUE), 1, 1)

NoLeftover == [esc |-> 0, csi |-> << >>, utf8 |-> << >>]

\* The byte chunks the shell produces in the model: text, controls, complete
\* sequences and pieces of sequences.
CUP(r, c) == <<ESC, Ch("[")>> \o to_string(r) \o <<Ch(";")>> \o to_string(c) \o <<Ch("H")>>

Chunks ==
    { <<Ch("x")>>,
      <<ESC>>,
      <<ESC, Ch("["), Ch("1")>>,
      <<Ch(";"), Ch("2"), Ch("H")>>,
      <<195, 169>>,
      <<195>>,
      <<169>>,
      <<LF>>,
      <<ESC, Ch("7")>>,
      <<ESC, Ch("8")>> }

\* The chunks of the specification of the line operations: text, line feed,
\* CSI L / M / T, a scroll region from row 2 down, and the start of a
\* full-screen program (alternate screen with the one-row region 1..1).
LineChunks ==
    { <<Ch("x")>>,
      <<LF>>,
      <<ESC, Ch("["), Ch("2"), Ch("r")>>,
      <<ESC, Ch("["), Ch("T")>>,
      <<ESC, Ch("["), Ch("L")>>,
      <<ESC, Ch("["), Ch("M")>>,
      <<ESC, Ch("["), Ch("?"), Ch("1"), Ch("0"), Ch("4"), Ch("9"), Ch("h"),
        ESC, Ch("["), Ch("1"), Ch(";"), Ch("1"), Ch("r")>> }

\* The chunks of the specification of cursor addressing: CSI row ; col H with
\* arguments below, inside and above the page.
CursorArgs == {<<0, 9>>, <<9, 0>>, <<2, 2>>, <<1, 3>>, <<3, 4>>}

CursorChunks == { CUP(a[1], a[2]) : a \in CursorArgs }

(***************************************************************************)
(* The plugin's key-sequence handling.  state holds key_sequences_saved,   *)
(* the terminals of state->terms with their term_mode (a terminal is the   *)
(* number of its buffer, buffer 0 is a buffer that is no terminal), the    *)
(* buffer of the active frame, and mismatch, which is not in the source:   *)
(* it is set when one of the two 'key sequence save/restore mismatch'      *)
(* assertions fails.                                                       *)
(***************************************************************************)
MaxTerms == 3

Terms == 1..MaxTerms

Buffers == 0..MaxTerms

InitState ==
    [key_sequences_saved |-> 0,
     live |-> [t \in Terms |-> FALSE],
     term_mode |-> [t \in Terms |-> 0],
     active |-> 0,
     mismatch |-> 0]

\* term_for_buffer(buffer) != NULL
term_for_buffer(p, b) == b \in Terms /\ p.live[b]

\* set_term_keys()
set_term_keys(p) ==
    [p EXCEPT !.mismatch = IF p.key_sequences_saved # 0 THEN 1 ELSE @,
              !.key_sequences_saved = 1]

\* restore_normal_keys()
restore_normal_keys(p) ==
    [p EXCEPT !.mismatch = IF p.key_sequences_saved = 0 THEN 1 ELSE @,
              !.key_sequences_saved = 0]

\* toggle_term_mode(t), with Term::toggle_term_mode()
toggle_term_mode(p, t) ==
    LET p1 == IF p.term_mode[t] # 0 THEN restore_normal_keys(p) ELSE set_term_keys(p)
    IN [p1 EXCEPT !.term_mode[t] = 1 - @]

\* focus(event) for EVENT_FRAME_PRE_SET_BUFFER on the active frame
focus(p, to_buff) ==
    LET from_term == term_for_buffer(p, p.active) /\ p.term_mode[p.active] # 0
        to_term == term_for_buffer(p, to_buff) /\ p.term_mode[to_buff] # 0
    IN IF from_term = to_term THEN p
       ELSE IF to_term THEN set_term_keys(p)
       ELSE restore_normal_keys(p)

\* The threads after Term::Term(): the reader polls, the main thread is
\* between events, nothing is read yet.
InitThreads ==
    /\ rpc = "poll" /\ mpc = "idle"
    /\ buff_lock = "free" /\ update_waiting = 0
    /\ buff = << >>
    /\ pty = 0 /\ produced = 0
    /\ shell_alive = TRUE /\ process_exited = 0
    /\ cancelled = FALSE /\ master_open = TRUE
    /\ forced = 0
    /\ wstatus = 0 /\ reaped = FALSE /\ bad_shell = 0 /\ cerr = FALSE
    /\ term_b = InitTerm /\ data_buff_b = << >>
    /\ state = InitState

Init ==
    /\ term = InitTerm
    /\ inc = NoLeftover
    /\ data_buff = << >>
    /\ nreads = 0
    /\ InitThreads

\* Term::read_thread appends the bytes of one read() to data_buff.
Read(chunk) ==
    /\ nreads < MaxReads
    /\ data_buff' = data_buff \o chunk
    /\ nreads' = nreads + 1
    /\ UNCHANGED <<term, inc, tvars>>

\* The registry's update(): t->update() of the terminal (term_mode is set).
Updated(r) ==
    /\ term' = r.t
    /\ inc' = r.inc
    /\ data_buff' = IF r.consumed = 1 THEN << >> ELSE data_buff

Update(junk) ==
    /\ ~TermUB(term)
    /\ Updated(update(term, inc, data_buff, junk))
    /\ UNCHANGED <<nreads, tvars>>

\* fit(): fit_to_frames() resizes the terminal to the frame's size.
Resize(w, h, ioctl_ok) ==
    /\ ~TermUB(term)
    /\ term' = resize(term, w, h, ioctl_ok)
    /\ UNCHANGED <<inc, data_buff, nreads, tvars>>

\* term_feed_keys_cmd(): the keys of one argument go to Term::keys(); out
\* holds what this call wrote to master_fd.
Keys(keys) ==
    /\ ~TermUB(term)
    /\ term' = Term_keys([term EXCEPT !.out = << >>], keys)
    /\ UNCHANGED <<inc, data_buff, nreads, tvars>>

Next ==
    \/ \E chunk \in Chunks : Read(chunk)
    \/ \E junk \in Junk : Update(junk)
    \/ \E w \in Widths, h \in Heights, ok \in BOOLEAN : Resize(w, h, ok)

Spec == Init /\ [][Next]_vars

\* The same terminal fed with the line operations.
NextLines ==
    \/ \E chunk \in LineChunks : Read(chunk)
    \/ \E junk \in Junk : Update(junk)
    \/ \E w \in Widths, h \in Heights, ok \in BOOLEAN : Resize(w, h, ok)

SpecLines == Init /\ [][NextLines]_vars

\* The same terminal fed with cursor addressing.
NextCursor ==
    \/ \E chunk \in CursorChunks : Read(chunk)
    \/ \E junk \in Junk : Update(junk)
    \/ \E w \in Widths, h \in Heights, ok \in BOOLEAN : Resize(w, h, ok)

SpecCursor == Init /\ [][NextCursor]_vars

\* The chunks of the specification of deferred wrap: a one-column and a
\* two-column glyph (the latter followed by BEL, so that it is not the last
\* glyph of the buffer), the last column of the last row with and without the
\* one-row region 1..1 above it and with the cursor saved there, ESC 8 and CR.
WIDE == <<228, 184, 173>>

ToLastCell == CUP(InitHeight, InitWidth)

WrapChunks ==
    { <<Ch("x")>>,
      WIDE \o <<CTRL_G>>,
      <<ESC, Ch("["), Ch("1"), Ch(";"), Ch("1"), Ch("r")>> \o ToLastCell,
      ToLastCell \o <<ESC, Ch("7")>>,
      ToLastCell,
      <<ESC, Ch("8")>>,
      <<CR>> }

\* The same terminal fed with glyphs at the right margin.
NextWrap ==
    \/ \E chunk \in WrapChunks : Read(chunk)
    \/ \E junk \in Junk : Update(junk)
    \/ \E w \in Widths, h \in Heights, ok \in BOOLEAN : Resize(w, h, ok)

SpecWrap == Init /\ [][NextWrap]_vars

\* The chunks of the specification of scrolling and clearing.  Fill writes
\* "x" into row 1, feeds lines until that row has scrolled into the history,
\* writes "y" into column 2 of the last row and "w" into the home cell.  The
\* regions are 1..2 with both rows given and 2..height with the top row
\* given.
FillLoop == [i \in 1..InitHeight |-> LF]

Fill == <<Ch("x")>> \o FillLoop \o <<Ch("y")>> \o <<ESC, Ch("["), Ch("H"), Ch("w")>>

CSI_S == <<ESC, Ch("["), Ch("S")>>

CSI_2J == <<ESC, Ch("["), Ch("2"), Ch("J")>>

RegionChunks ==
    { Fill,
      <<ESC, Ch("["), Ch("1"), Ch(";"), Ch("2"), Ch("r")>>,
      <<ESC, Ch("["), Ch("2"), Ch("r")>>,
      CSI_S,
      CSI_2J }

\* The same terminal fed with scroll regions, scrolls and clears.
NextRegion ==
    \/ \E chunk \in RegionChunks : Read(chunk)
    \/ \E junk \in Junk : Update(junk)
    \/ \E w \in Widths, h \in Heights, ok \in BOOLEAN : Resize(w, h, ok)

SpecRegion == Init /\ [][NextRegion]_vars

\* The chunks of the specification of erasing: a page full of "x", a glyph,
\* the cursor sent home and into the page, CSI 1 J, CSI 1 K and TAB.
FillPage == [i \in 1..(InitWidth * InitHeight) |-> Ch("x")]

CSI_1J == <<ESC, Ch("["), Ch("1"), Ch("J")>>

CSI_1K == <<ESC, Ch("["), Ch("1"), Ch("K")>>

EraseChunks ==
    { FillPage,
      <<Ch("x")>>,
      CUP(1, 1),
      CUP(InitHeight, 2),
      CSI_1J,
      CSI_1K,
      <<TAB>> }

\* The same terminal fed with text and erase commands.
NextErase ==
    \/ \E chunk \in EraseChunks : Read(chunk)
    \/ \E junk \in Junk : Update(junk)
    \/ \E w \in Widths, h \in Heights, ok \in BOOLEAN : Resize(w, h, ok)

SpecErase == Init /\ [][NextErase]_vars

\* The chunks of the specification of the scroll region: a line feed and a
\* glyph to move the cursor, and CSI r with no argument, with a top row, with
\* top and bottom in order, out of order and beyond the page.
RegionArgs == { << >>, <<2>>, <<1, 2>>, <<2, 1>>, <<9, 9>> }

RECURSIVE JoinArgs(_)
JoinArgs(a) ==
    IF Len(a) = 0 THEN << >>
    ELSE IF Len(a) = 1 THEN to_string(a[1])
    ELSE to_string(a[1]) \o <<Ch(";")>> \o JoinArgs(Tail(a))

DECSTBM(a) == <<ESC, Ch("[")>> \o JoinArgs(a) \o <<Ch("r")>>

ScrollChunks == { <<LF, Ch("x")>> } \cup { DECSTBM(a) : a \in RegionArgs }

\* The same terminal fed with scroll-region commands.
NextScroll ==
    \/ \E chunk \in ScrollChunks : Read(chunk)
    \/ \E junk \in Junk : Update(junk)
    \/ \E w \in Widths, h \in Heights, ok \in BOOLEAN : Resize(w, h, ok)

SpecScroll == Init /\ [][NextScroll]_vars

\* The chunks of the specification of the alternate screen: a glyph, a line
\* feed, a scroll region, CSI ? 1049 h and l, and the soft reset CSI ! p.
ALT_ON == <<ESC, Ch("["), Ch("?"), Ch("1"), Ch("0"), Ch("4"), Ch("9"), Ch("h")>>

ALT_OFF == <<ESC, Ch("["), Ch("?"), Ch("1"), Ch("0"), Ch("4"), Ch("9"), Ch("l")>>

SOFT_RESET == <<ESC, Ch("["), Ch("!"), Ch("p")>>

AltChunks ==
    { <<Ch("x"), LF>>,
      <<ESC, Ch("["), Ch("2"), Ch("r")>>,
      ALT_ON,
      ALT_OFF,
      SOFT_RESET }

\* The same terminal fed with screen switches.
NextAlt ==
    \/ \E chunk \in AltChunks : Read(chunk)
    \/ \E junk \in Junk : Update(junk)
    \/ \E w \in Widths, h \in Heights, ok \in BOOLEAN : Resize(w, h, ok)

SpecAlt == Init /\ [][NextAlt]_vars

\* The attribute sequences of the shell: CSI m with no argument, with the
\* light background 101, with a 256-colour foreground followed by bold, with
\* a lone 38, and CSI 1 ; ; 31 m with an empty parameter between two ';'.
SGRSeq(a) == <<ESC, Ch("[")>> \o JoinArgs(a) \o <<Ch("m")>>

SGR_256_bold == <<38, 5, 7, 1>>

SGR_rgb_underline == <<48, 2, 1, 2, 3, 4>>

SgrLists == { << >>, <<101>>, SGR_256_bold, <<38>> }

SGR_1_empty_31 == <<ESC, Ch("["), Ch("1"), Ch(";"), Ch(";"), Ch("3"), Ch("1"), Ch("m")>>

SgrChunks == { SGRSeq(a) : a \in SgrLists } \cup { SGR_1_empty_31 }

\* The same terminal fed with attribute sequences.
NextSgr ==
    \/ \E chunk \in SgrChunks : Read(chunk)
    \/ \E junk \in Junk : Update(junk)
    \/ \E w \in Widths, h \in Heights, ok \in BOOLEAN : Resize(w, h, ok)

SpecSgr == Init /\ [][NextSgr]_vars

\* The chunks of the specification of attributes, replies and the title: a
\* glyph, SGR 1 ; 31 and SGR 0, the status queries CSI 5 n and CSI 6 n, and
\* OSC 0 ; t ended by BEL and by ESC \.
SGR_1_31 == <<ESC, Ch("["), Ch("1"), Ch(";"), Ch("3"), Ch("1"), Ch("m")>>

SGR_0 == <<ESC, Ch("["), Ch("0"), Ch("m")>>

DSR(n) == <<ESC, Ch("["), n, Ch("n")>>

OSC_0(text, terminator) == <<ESC, Ch("]"), Ch("0"), Ch(";")>> \o text \o terminator

TitleChunks == { OSC_0(<<Ch("t")>>, <<CTRL_G>>), OSC_0(<<Ch("t")>>, <<ESC, Ch("\\")>>) }

ReplyChunks ==
    { <<Ch("x")>>, SGR_1_31, SGR_0, DSR(Ch("5")), DSR(Ch("6")) } \cup TitleChunks

\* The same terminal fed with attributes, queries and titles.
NextReply ==
    \/ \E chunk \in ReplyChunks : Read(chunk)
    \/ \E junk \in Junk : Update(junk)
    \/ \E w \in Widths, h \in Heights, ok \in BOOLEAN : Resize(w, h, ok)

SpecReply == Init /\ [][NextReply]_vars

\* The chunks and the key events of the specification of the keyboard: the
\* application-keys mode set and reset (CSI ? 1 h / l) and a glyph; every
\* named key and mouse event alone, a plain character, and two events of
\* two keys.
KeyChunks ==
    { <<ESC, Ch("["), Ch("?"), Ch("1"), Ch("h")>>,
      <<ESC, Ch("["), Ch("?"), Ch("1"), Ch("l")>>,
      <<Ch("x")>> }

FunctionKeys ==
    {"FN1", "FN2", "FN3", "FN4", "FN5", "FN6", "FN7", "FN8", "FN9", "FN10",
     "FN11", "FN12"}

CursorKeys ==
    {"ARROW_UP", "ARROW_DOWN", "ARROW_RIGHT", "ARROW_LEFT", "HOME_KEY", "END_KEY"}

MouseEvents == {"MOUSE_WHEEL_UP", "MOUSE_WHEEL_DOWN", "MOUSE_BUTTON_LEFT"}

KeyNames ==
    CursorKeys \cup MouseEvents \cup FunctionKeys
        \cup {"DEL_KEY", "PAGE_UP", "PAGE_DOWN", "SHIFT_TAB", "MENU_KEY", "x"}

KeyEvents ==
    { <<k>> : k \in KeyNames }
        \cup { <<"MOUSE_BUTTON_LEFT", "x">>, <<"ARROW_UP", "DEL_KEY">> }

\* The same terminal with the keyboard.
NextKeys ==
    \/ \E chunk \in KeyChunks : Read(chunk)
    \/ \E junk \in Junk : Update(junk)
    \/ \E keys \in KeyEvents : Keys(keys)

SpecKeys == Init /\ [][NextKeys]_vars

(***************************************************************************)
(* The reader thread, update() step by step and ~Term.                     *)
(***************************************************************************)
\* get_max_block_size() and get_read_chunk_size(), scaled down, and the
\* number of bytes the shell writes in the model.
max_block_size == 3
read_chunk_size == 2
MaxShellBytes == 6

\* The shell writes one byte to the slave side of the PTY.
ShellWrite ==
    /\ shell_alive /\ master_open /\ produced < MaxShellBytes
    /\ pty' = pty + 1
    /\ produced' = produced + 1
    /\ UNCHANGED <<term, inc, data_buff, nreads, rpc, mpc, buff_lock,
                   update_waiting, buff, shell_alive, process_exited,
                   cancelled, master_open, forced>>
    /\ UNCHANGED <<cvars, xvars>>

\* The statuses the shell process exits with: 0 from a shell that ran, 123
\* from the child whose execvp() failed.
EXEC_FAILED == 123

ExitStatuses == {0, EXEC_FAILED}

\* The shell process exits.  The child whose execvp() failed has written
\* nothing.
ShellExit(status) ==
    /\ shell_alive
    /\ status = EXEC_FAILED => produced = 0
    /\ shell_alive' = FALSE
    /\ wstatus' = status
    /\ UNCHANGED <<term, inc, data_buff, nreads, rpc, mpc, buff_lock,
                   update_waiting, buff, pty, produced, process_exited,
                   cancelled, master_open, forced>>
    /\ UNCHANGED <<reaped, bad_shell, cerr, xvars>>

\* read_thread: poll() returns with an event; a byte on sig_fds[0] ends the
\* thread, anything else goes on to the read.
ReaderPoll ==
    /\ rpc = "poll"
    /\ pty > 0 \/ cancelled \/ ~shell_alive \/ ~master_open
    /\ rpc' = IF cancelled THEN "done" ELSE "read"
    /\ UNCHANGED <<term, inc, data_buff, nreads, mpc, buff_lock,
                   update_waiting, buff, pty, produced, shell_alive,
                   process_exited, cancelled, master_open, forced>>
    /\ UNCHANGED <<cvars, xvars>>

\* read_thread: the while loop of read() calls.  used is the number of bytes
\* of data_buff in use, avail what the PTY holds; the result also tells
\* whether the loop left through the break (size over max).
RECURSIVE ReadLoop(_, _)
ReadLoop(used, avail) ==
    LET n == IF avail < read_chunk_size THEN avail ELSE read_chunk_size IN
    IF n = 0 THEN [used |-> used, avail |-> avail, broke |-> FALSE]
    ELSE IF (used + n) + read_chunk_size > max_block_size
    THEN [used |-> used + n, avail |-> avail - n, broke |-> TRUE]
    ELSE ReadLoop(used + n, avail - n)

\* read_thread: the block under buff_lock, the test of n and the forced update.
ReaderRead ==
    /\ rpc = "read"
    /\ buff_lock = "free"
    /\ LET s == Len(data_buff)
           r == IF master_open THEN ReadLoop(s, pty)
                ELSE [used |-> s, avail |-> pty, broke |-> FALSE]
           force_update == s = 0 \/ r.broke
           failed == ~r.broke /\ (~master_open \/ ~shell_alive)
       IN
       /\ data_buff' = data_buff \o [i \in 1..(r.used - s) |-> Ch("x")]
       /\ pty' = r.avail
       /\ process_exited' = IF failed THEN 1 ELSE process_exited
       /\ rpc' = IF failed THEN "done" ELSE "poll"
       /\ forced' = IF ~failed /\ force_update /\ update_waiting = 0 THEN 1 ELSE forced
    /\ UNCHANGED <<term, inc, nreads, mpc, buff_lock, update_waiting, buff,
                   produced, shell_alive, cancelled, master_open>>
    /\ UNCHANGED <<cvars, xvars>>

\* sig(): SIGCHLD while the terminal is in the registry; waitpid() returns
\* the status of the shell, once.
Sig ==
    /\ mpc = "idle"
    /\ ~shell_alive /\ ~reaped
    /\ reaped' = TRUE
    /\ process_exited' = 1
    /\ bad_shell' = IF wstatus = EXEC_FAILED THEN 1 ELSE bad_shell
    /\ UNCHANGED <<term, inc, data_buff, nreads, rpc, mpc, buff_lock,
                   update_waiting, buff, pty, produced, shell_alive,
                   cancelled, master_open, forced>>
    /\ UNCHANGED <<wstatus, cerr, xvars>>

\* The registry's update(): a terminal whose process_exited is set is deleted,
\* any other is updated.  Term::update() up to the lock: the delay_update
\* test, update_waiting = 1.
MainUpdate ==
    /\ mpc = "idle"
    /\ forced' = 0
    /\ IF process_exited # 0
       THEN /\ cerr' = (cerr \/ bad_shell # 0)
            /\ mpc' = "d_signal"
            /\ UNCHANGED <<term, update_waiting>>
       ELSE IF term.delay_update # 0
       THEN /\ term' = [term EXCEPT !.delay_update = 0]
            /\ UNCHANGED <<mpc, update_waiting, cerr>>
       ELSE /\ update_waiting' = 1
            /\ mpc' = "u_lock"
            /\ UNCHANGED <<term, cerr>>
    /\ UNCHANGED <<inc, data_buff, nreads, rpc, buff_lock, buff, pty, produced,
                   shell_alive, process_exited, cancelled, master_open>>
    /\ UNCHANGED <<wstatus, reaped, bad_shell, xvars>>

\* Term::update(): the lock_guard is constructed, then the swap and the clear.
UpdateLock ==
    /\ mpc = "u_lock"
    /\ buff_lock = "free"
    /\ buff_lock' = "update"
    /\ update_waiting' = 0
    /\ buff' = data_buff
    /\ data_buff' = << >>
    /\ mpc' = "u_decode"
    /\ UNCHANGED <<term, inc, nreads, rpc, pty, produced, shell_alive,
                   process_exited, cancelled, master_open, forced>>
    /\ UNCHANGED <<cvars, xvars>>

\* Term::update(): the prepend, the decode loop and write_to_buffer(); the
\* lock_guard is destroyed when the function returns.
Decoded(r) == term' = r.t /\ inc' = r.inc

UpdateDecode(junk) ==
    /\ mpc = "u_decode"
    /\ Decoded(update(term, inc, buff, junk))
    /\ buff' = << >>
    /\ buff_lock' = "free"
    /\ mpc' = "idle"
    /\ UNCHANGED <<data_buff, nreads, rpc, update_waiting, pty, produced,
                   shell_alive, process_exited, cancelled, master_open, forced>>
    /\ UNCHANGED <<cvars, xvars>>

\* ~Term: write(sig_fds[1], &z, 1)
DtorSignal ==
    /\ mpc = "d_signal"
    /\ cancelled' = TRUE
    /\ mpc' = "d_close"
    /\ UNCHANGED <<term, inc, data_buff, nreads, rpc, buff_lock,
                   update_waiting, buff, pty, produced, shell_alive,
                   process_exited, master_open, forced>>
    /\ UNCHANGED <<cvars, xvars>>

\* ~Term: close(master_fd); close(slave_fd)
DtorClose ==
    /\ mpc = "d_close"
    /\ master_open' = FALSE
    /\ mpc' = "d_join"
    /\ UNCHANGED <<term, inc, data_buff, nreads, rpc, buff_lock,
                   update_waiting, buff, pty, produced, shell_alive,
                   process_exited, cancelled, forced>>
    /\ UNCHANGED <<cvars, xvars>>

\* ~Term: thr.join() returns once read_thread has returned
DtorJoin ==
    /\ mpc = "d_join"
    /\ rpc = "done"
    /\ mpc' = "d_free"
    /\ UNCHANGED <<term, inc, data_buff, nreads, rpc, buff_lock,
                   update_waiting, buff, pty, produced, shell_alive,
                   process_exited, cancelled, master_open, forced>>
    /\ UNCHANGED <<cvars, xvars>>

\* ~Term: close(sig_fds[1]); close(sig_fds[0]); yed_free_buffer(buffer)
DtorFree ==
    /\ mpc = "d_free"
    /\ mpc' = "gone"
    /\ UNCHANGED <<term, inc, data_buff, nreads, rpc, buff_lock,
                   update_waiting, buff, pty, produced, shell_alive,
                   process_exited, cancelled, master_open, forced>>
    /\ UNCHANGED <<cvars, xvars>>

NextThreads ==
    \/ ShellWrite
    \/ \E status \in ExitStatuses : ShellExit(status)
    \/ ReaderPoll
    \/ ReaderRead
    \/ Sig
    \/ MainUpdate
    \/ UpdateLock
    \/ \E junk \in Junk : UpdateDecode(junk)
    \/ DtorSignal
    \/ DtorClose
    \/ DtorJoin
    \/ DtorFree

SpecThreads == Init /\ [][NextThreads]_vars

\* The registry's update() run by the wake-up of yed_force_update() alone.
WokenUpdate == forced = 1 /\ MainUpdate

\* fit() between two events of the main thread.
ResizeIdle(w, h, ioctl_ok) == mpc = "idle" /\ Resize(w, h, ioctl_ok)

\* The terminal in terminal mode with a running shell, left to itself: the
\* main thread runs update() only when the reader thread has asked for it.
\* Both threads are scheduled fairly; the shell and the frame are not bound
\* to do anything.
NextWake ==
    \/ ShellWrite
    \/ ReaderPoll
    \/ ReaderRead
    \/ WokenUpdate
    \/ UpdateLock
    \/ \E junk \in Junk : UpdateDecode(junk)
    \/ \E w \in Widths, h \in Heights, ok \in BOOLEAN : ResizeIdle(w, h, ok)

\* Term::update() returns from the decode loop: the step of UpdateDecode as
\* the position of the main thread shows it.
DecodeReturns == mpc = "u_decode" /\ mpc' = "idle"

SpecWake ==
    /\ Init /\ [][NextWake]_vars
    /\ WF_vars(ReaderPoll) /\ WF_vars(ReaderRead)
    /\ WF_vars(WokenUpdate) /\ WF_vars(UpdateLock)
    /\ WF_mpc(DecodeReturns)

\* Term::read_thread of the second terminal appends the bytes of one read()
\* to its data_buff.
ReadB(chunk) ==
    /\ nreads < MaxReads
    /\ data_buff_b' = data_buff_b \o chunk
    /\ nreads' = nreads + 1
    /\ UNCHANGED <<term, inc, data_buff, term_b, rpc, mpc, buff_lock,
                   update_waiting, buff, pty, produced, shell_alive,
                   process_exited, cancelled, master_open, forced, cvars, state>>

\* The registry's update() with two terminals in state->terms: t->update()
\* of the first, then t->update() of the second.  The leftover state is
\* static in Term::update(), so the second call starts from what the first
\* one left.
UpdatedBoth(ra, rb) ==
    /\ term' = ra.t
    /\ data_buff' = IF ra.consumed = 1 THEN << >> ELSE data_buff
    /\ term_b' = rb.t
    /\ data_buff_b' = IF rb.consumed = 1 THEN << >> ELSE data_buff_b
    /\ inc' = rb.inc

UpdateSecond(ra, junk) == UpdatedBoth(ra, update(term_b, ra.inc, data_buff_b, junk))

UpdateBoth(junk) ==
    /\ ~TermUB(term) /\ ~TermUB(term_b)
    /\ UpdateSecond(update(term, inc, data_buff, junk), junk)
    /\ UNCHANGED <<nreads, rpc, mpc, buff_lock, update_waiting, buff, pty,
                   produced, shell_alive, process_exited, cancelled,
                   master_open, forced, cvars, state>>

\* The chunks of the two shells: a glyph, the two halves of CSI 1 ; 2 H.
TwoChunks ==
    { <<Ch("x")>>,
      <<ESC, Ch("["), Ch("1")>>,
      <<Ch(";"), Ch("2"), Ch("H")>> }

\* Two terminals in the registry, each fed by its shell.
NextTwo ==
    \/ \E chunk \in TwoChunks : Read(chunk)
    \/ \E chunk \in TwoChunks : ReadB(chunk)
    \/ \E junk \in Junk : UpdateBoth(junk)
    \/ \E w \in Widths, h \in Heights, ok \in BOOLEAN : Resize(w, h, ok)

SpecTwo == Init /\ [][NextTwo]_vars

\* The chunks of the specification of the host buffer: a glyph, a line feed
\* and CSI @, which inserts a blank cell at the cursor.
ICH == <<ESC, Ch("["), Ch("@")>>

BufferChunks == { <<Ch("x")>>, <<LF>>, ICH }

\* The same terminal fed with text and cell insertions.
NextBuffer ==
    \/ \E chunk \in BufferChunks : Read(chunk)
    \/ \E junk \in Junk : Update(junk)
    \/ \E w \in Widths, h \in Heights, ok \in BOOLEAN : Resize(w, h, ok)

SpecBuffer == Init /\ [][NextBuffer]_vars

\* The plugin runs until an assertion fails.
Running == state.mismatch = 0

PluginUnchanged ==
    UNCHANGED <<term, inc, data_buff, nreads, rpc, mpc, buff_lock,
                update_waiting, buff, pty, produced, shell_alive,
                process_exited, cancelled, master_open, forced, cvars,
                term_b, data_buff_b>>

\* term_new_cmd(): State::new_term() makes a terminal (term_mode is 1); its
\* buffer is in no frame.
TermNew(t) ==
    /\ Running /\ ~state.live[t]
    /\ state' = [state EXCEPT !.live[t] = TRUE, !.term_mode[t] = 1]
    /\ PluginUnchanged

\* The host puts buffer b into the active frame: focus() runs before the
\* frame's buffer changes.
SetBuffer(b) ==
    /\ Running /\ b # state.active
    /\ (b = 0 \/ term_for_buffer(state, b))
    /\ state' = [focus(state, b) EXCEPT !.active = b]
    /\ PluginUnchanged

\* toggle_term_mode_cmd()
ToggleTermModeCmd ==
    /\ Running /\ term_for_buffer(state, state.active)
    /\ state' = toggle_term_mode(state, state.active)
    /\ PluginUnchanged

\* term_mode_off_cmd() with the name of the buffer of terminal t
TermModeOffCmd(t) ==
    /\ Running /\ state.live[t]
    /\ state' = IF state.term_mode[t] # 0 THEN toggle_term_mode(state, t) ELSE state
    /\ PluginUnchanged

\* term_mode_on_cmd() with the name of the buffer of terminal t
TermModeOnCmd(t) ==
    /\ Running /\ state.live[t]
    /\ state' = IF state.term_mode[t] = 0 THEN toggle_term_mode(state, t) ELSE state
    /\ PluginUnchanged

\* ins(): a paste into the terminal of the active frame turns term mode on.
Paste ==
    /\ Running /\ term_for_buffer(state, state.active)
    /\ state' = IF state.term_mode[state.active] = 0
                THEN toggle_term_mode(state, state.active) ELSE state
    /\ PluginUnchanged

\* The registry's update() deletes the terminal t whose shell has exited.
\* ~Term frees the buffer; when it is the buffer of the active frame the
\* host gives the frame another buffer, and it may run focus() for that while
\* t is still in state->terms.
TermExit(t, notified) ==
    /\ Running /\ state.live[t]
    /\ LET p == IF state.active = t
                THEN [(IF notified THEN focus(state, 0) ELSE state) EXCEPT !.active = 0]
                ELSE state
       IN state' = [p EXCEPT !.live[t] = FALSE, !.term_mode[t] = 0]
    /\ PluginUnchanged

NextPlugin ==
    \/ \E t \in Terms : TermNew(t)
    \/ \E b \in Buffers : SetBuffer(b)
    \/ ToggleTermModeCmd
    \/ \E t \in Terms : TermModeOffCmd(t)
    \/ \E t \in Terms : TermModeOnCmd(t)
    \/ Paste
    \/ \E t \in Terms, notified \in BOOLEAN : TermExit(t, notified)

SpecPlugin == Init /\ [][NextPlugin]_vars

(***************************************************************************)
(* Properties of the leftover state and of chunked input.                  *)
(***************************************************************************)
\* The screens, the cursors and the attribute state of a terminal.
View(t) == <<t.main_screen, t.alt_screen, t._screen, t.current_attrs, TermUB(t)>>

\* The terminal is at rest: no byte is buffered and update() is not delayed.
AtRest == data_buff = << >> /\ term.delay_update = 0 /\ ~TermUB(term)

\* One chunk arrives and update() decodes it.
Fed(r) == [t |-> r.t, inc |-> r.inc]

Feed(st, chunk, junk) == Fed(update(st.t, st.inc, chunk, junk))

\* C1: a byte stream fed whole and the same stream fed in several chunks leave
\* the same screens, cursors and attributes.  Stated on two consecutive
\* chunks: from every state at rest, decoding a and then b gives what decoding
\* the concatenation of a and b gives.
C1_ChunkingIsInvisible ==
    AtRest =>
      \A a \in Chunks, b \in Chunks, junk \in Junk :
        LET st == [t |-> term, inc |-> inc] IN
        View(Feed(Feed(st, a, junk), b, junk).t) = View(Feed(st, a \o b, junk).t)

\* The complete CSI sequences whose splits are compared.
CsiSeqs == { CUP(1, 2), <<ESC, Ch("["), Ch("2"), Ch("C")>> }

\* C2: a CSI sequence split at any byte boundary across two chunks is executed
\* once and leaves the state that the unsplit sequence leaves.
C2_SplitCsiIsInvisible ==
    AtRest =>
      \A q \in CsiSeqs, junk \in Junk :
        \A k \in 1..(Len(q) - 1) :
          LET st == [t |-> term, inc |-> inc]
              split == Feed(Feed(st, SubSeq(q, 1, k), junk), SubSeq(q, k + 1, Len(q)), junk)
              whole == Feed(st, q, junk)
          IN View(Feed(split, << >>, junk).t) = View(Feed(whole, << >>, junk).t)

\* C3: the bytes saved for a truncated UTF-8 glyph are bytes that were
\* received: the shell's chunks hold no NUL, so the terminating 0 of the
\* decode buffer is never among them.
C3_SavedBytesWereReceived ==
    \A j \in 1..Len(inc.utf8) : inc.utf8[j] # NUL

\* C4: at most one of the three leftovers (ESC, CSI, UTF-8) is pending after
\* an update.
PendingLeftovers ==
    (IF inc.esc # 0 THEN 1 ELSE 0) + (IF Len(inc.csi) > 0 THEN 1 ELSE 0)
      + (IF Len(inc.utf8) > 0 THEN 1 ELSE 0)

C4_AtMostOneLeftover == PendingLeftovers <= 1

(***************************************************************************)
(* Properties of the screens.                                              *)
(***************************************************************************)
CursorInBounds(s) ==
    /\ 1 <= s.cursor_row /\ s.cursor_row <= s.height
    /\ 1 <= s.cursor_col /\ s.cursor_col <= s.width

\* C6: the cursor of each screen always stays inside the page:
\* 1 <= row <= height and 1 <= col <= width.
C6_CursorAlwaysInBounds ==
    CursorInBounds(term.main_screen) /\ CursorInBounds(term.alt_screen)

\* C5: each screen holds exactly scrollback + height lines, whatever was
\* scrolled, inserted, deleted or resized.
C5_LineCount ==
    /\ Len(term.main_screen.lines) = term.main_screen.scrollback + term.main_screen.height
    /\ Len(term.alt_screen.lines) = term.alt_screen.scrollback + term.alt_screen.height

\* C5, its case: text has moved up into the first history line (a scroll or
\* a shrinking resize took a line out) and the page is lower than it began.
C5_Witness ==
    /\ AtRest
    /\ term.main_screen.height < InitHeight
    /\ GlyphC(term.main_screen.lines[1].cells[1].glyph) = Ch("x")

Min2(a, b) == IF a <= b THEN a ELSE b
Max2(a, b) == IF a >= b THEN a ELSE b

\* C7: set_cursor(row, col) leaves the cursor at row <- min(max(row, 1), height)
\* and col <- min(max(col, 1), width): whenever update() decodes exactly one
\* CSI row ; col H from a clean leftover state, the cursor is the clamped
\* position.
C7_SetCursorClamps ==
    [][\A a \in CursorArgs :
         (/\ AtRest' /\ term.delay_update = 0 /\ inc = NoLeftover
          /\ data_buff = CUP(a[1], a[2]))
         => (/\ Scr(term').cursor_row = Min2(Max2(a[1], 1), Scr(term).height)
             /\ Scr(term').cursor_col = Min2(Max2(a[2], 1), Scr(term).width))]_vars

\* C7, its case: a request below the first column and beyond the last row has
\* been decoded and the cursor stands in the last row, first column.
C7_Witness ==
    /\ AtRest /\ nreads > 0
    /\ Scr(term).cursor_row = Scr(term).height
    /\ Scr(term).cursor_col = 1
    /\ Scr(term).height > 1

(***************************************************************************)
(* Properties of the threads.                                              *)
(***************************************************************************)
\* C8: in ~Term the PTY descriptors are closed only after the reader thread
\* has terminated: whenever master_fd is closed, read_thread has returned.
C8_ReaderStoppedBeforeClose == ~master_open => rpc = "done"

\* C9: data_buff never holds more than max_block_size plus one read chunk.
C9_BufferBounded == Len(data_buff) <= max_block_size + read_chunk_size

\* C10: update() holds buff_lock for the swap and the clear only: the decode
\* runs with the mutex released.
C10_DecodeOutsideLock == mpc = "u_decode" => buff_lock = "free"

(***************************************************************************)
(* Properties of the page: deferred wrap, scrolling, resizing, clearing,   *)
(* attributes, replies and the title.                                      *)
(***************************************************************************)
\* update() decodes exactly the bytes of chunk, from a clean leftover state.
Decodes(chunk) ==
    AtRest' /\ term.delay_update = 0 /\ inc = NoLeftover /\ data_buff = chunk

\* The glyph of the cell in column c of the visible row r; a position that
\* is no cell of the screen has no glyph.
NoGlyph == <<NUL, NUL>>

GlyphAt(s, r, c) ==
    IF /\ s.scrollback + r \in 1..Len(s.lines)
       /\ c \in 1..Len(s.lines[s.scrollback + r].cells)
    THEN s.lines[s.scrollback + r].cells[c].glyph
    ELSE NoGlyph

\* The chunks that write one glyph, with the glyph.
GlyphWrites ==
    { [chunk |-> <<Ch("x")>>, g |-> <<Ch("x")>>],
      [chunk |-> WIDE \o <<CTRL_G>>, g |-> WIDE] }

\* A glyph w.g is written with the cursor in the last column: without a
\* pending wrap it goes into the last column, the cursor stays and wrap_next
\* is set; with a pending wrap it goes into the first column of row dest,
\* which is a fresh blank row after a scroll and the row as it was otherwise.
WrapBody(w, dest) ==
    LET s == Scr(term)
        s1 == Scr(term')
    IN
    IF term.wrap_next = 0
    THEN /\ term'.wrap_next = 1
         /\ s1.cursor_row = s.cursor_row
         /\ s1.cursor_col = s.width
         /\ GlyphAt(s1, s.cursor_row, s.width) = w.g
    ELSE /\ s1.cursor_row = dest
         /\ GlyphAt(s1, dest, 1) = w.g
         /\ \A c \in 2..s.width :
               GlyphAt(s1, dest, c) =
                   IF s.cursor_row = Screen_scbottom(s) THEN GLYPH_EMPTY
                   ELSE GlyphAt(s, dest, c)

AtRightMargin == term.auto_wrap # 0 /\ Scr(term).cursor_col = Scr(term).width

PositioningChunks == { <<CR>>, <<ESC, Ch("8")>>, ToLastCell }

\* C12: after a command that sets the cursor position (here CR, CSI H and
\* ESC 8) wrap_next is 0, whatever it was before.
C12_PositioningClearsWrapNext ==
    [][\A c \in PositioningChunks : Decodes(c) => term'.wrap_next = 0]_vars

\* The cells of the visible columns of line i (counted from the oldest
\* history line).
RowCells(s, i) == [c \in 1..s.width |-> s.lines[i].cells[c]]

RowBlank(s, i) == \A c \in 1..s.width : s.lines[i].cells[c].glyph = GLYPH_EMPTY

\* C13: with a scroll region t..b whose top row t >= 1 is set, scroll_up
\* (CSI S) moves rows t+1..b up by one and blanks row b; the visible rows
\* outside t..b and the history rows are the same before and after.
C13_ScrollUpStaysInRegion ==
    [][(Decodes(CSI_S) /\ Scr(term).scroll_t >= 1)
       => LET s == Scr(term)
              s1 == Scr(term')
              top == s.scrollback + s.scroll_t
              bot == s.scrollback + Screen_scbottom(s)
          IN /\ Len(s1.lines) = Len(s.lines)
             /\ \A i \in 1..Len(s.lines) :
                   IF i < top \/ i > bot THEN RowCells(s1, i) = RowCells(s, i)
                   ELSE IF i < bot THEN RowCells(s1, i) = RowCells(s, i + 1)
                   ELSE RowBlank(s1, i)]_vars

\* C13, its case: with the region 1..2 set, the row of "y" has moved up to
\* row 1 over "w", row 2 is blank and the history still holds "x".
C13_Witness ==
    /\ AtRest
    /\ Scr(term).scroll_t = 1 /\ Scr(term).scroll_b = 2 /\ Scr(term).height >= 2
    /\ GlyphAt(Scr(term), 0, 1) = <<Ch("x")>>
    /\ GlyphAt(Scr(term), 1, 2) = <<Ch("y")>>
    /\ GlyphAt(Scr(term), 1, 1) = GLYPH_EMPTY
    /\ RowBlank(Scr(term), Scr(term).scrollback + 2)

\* C15: CSI 2 J blanks the glyph of every cell of the visible rows of the
\* active screen and leaves the history rows and the cursor as they were.
C15_ClearPageKeepsHistory ==
    [][Decodes(CSI_2J)
       => LET s == Scr(term)
              s1 == Scr(term')
          IN /\ Len(s1.lines) = Len(s.lines)
             /\ \A i \in 1..Len(s.lines) :
                   IF i <= s.scrollback THEN RowCells(s1, i) = RowCells(s, i)
                   ELSE RowBlank(s1, i)
             /\ s1.cursor_row = s.cursor_row
             /\ s1.cursor_col = s.cursor_col]_vars

\* C15, its case: the page that held "w" and "y" is blank, the history still
\* holds "x" and the cursor stands behind the place of "w".
C15_Witness ==
    /\ AtRest
    /\ Scr(term).scroll_t = 0 /\ Scr(term).scroll_b = 0
    /\ GlyphAt(Scr(term), 0, 1) = <<Ch("x")>>
    /\ \A r \in 1..Scr(term).height : RowBlank(Scr(term), Scr(term).scrollback + r)
    /\ Scr(term).cursor_row = 1 /\ Scr(term).cursor_col = 2

\* The sizes a page of width w and height h can grow to in the model.
LargerSizes(w, h) ==
    { d \in (w..(InitWidth + 1)) \X (h..(InitHeight + 1)) : d # <<w, h>> }

\* set_dimensions(w1, h1) on the screen s keeps the visible cells of s where
\* they are and shows blank cells in the added rows and columns.
GrowKeeps(s, g) ==
    /\ \A r \in 1..s.height : \A c \in 1..s.width :
          g.lines[g.scrollback + r].cells[c] = s.lines[s.scrollback + r].cells[c]
    /\ \A r \in 1..g.height : \A c \in 1..g.width :
          (r > s.height \/ c > s.width)
          => g.lines[g.scrollback + r].cells[c].glyph = GLYPH_EMPTY

\* set_dimensions back to the size of s restores the visible cells and the
\* history rows of s.
ShrinkRestores(s, b) ==
    /\ Len(b.lines) = Len(s.lines)
    /\ \A i \in 1..Len(s.lines) : RowCells(b, i) = RowCells(s, i)

GrowAndBack(s, attrs) ==
    \A d \in LargerSizes(s.width, s.height) :
        /\ GrowKeeps(s, set_dimensions(s, attrs, d[1], d[2]))
        /\ ShrinkRestores(s, set_dimensions(set_dimensions(s, attrs, d[1], d[2]),
                                            attrs, s.width, s.height))

\* C14: growing a page keeps every visible cell in its place and leaves the
\* added rows and columns blank; shrinking it back, with nothing written in
\* between, restores the visible cells and the history rows.
C14_GrowKeepsShrinkRestores ==
    ~TermUB(term) =>
        /\ GrowAndBack(term.main_screen, term.current_attrs)
        /\ GrowAndBack(term.alt_screen, term.current_attrs)

\* The cells of both screens.
AllCells(t) ==
    <<[i \in 1..Len(t.main_screen.lines) |-> t.main_screen.lines[i].cells],
      [i \in 1..Len(t.alt_screen.lines) |-> t.alt_screen.lines[i].cells]>>

\* The cell the last glyph went into: left of the cursor, or under it when
\* the glyph filled the last column.
WrittenCell(t) ==
    LET s == Scr(t) IN
    s.lines[s.scrollback + s.cursor_row].cells[
        IF t.wrap_next # 0 THEN s.cursor_col ELSE s.cursor_col - 1]

\* C16: SGR 1 ; 31 makes the current attributes bold with the 16-colour
\* foreground red, SGR 0 makes them the default ones, neither changes a cell;
\* a written glyph is stored with the attributes current at that moment.
C16_CellsHoldAttributeSnapshots ==
    [][/\ Decodes(SGR_1_31)
          => /\ term'.current_attrs.bold = 1
             /\ term'.current_attrs.fg_kind = ATTR_KIND_16
             /\ term'.current_attrs.fg = 31
             /\ AllCells(term') = AllCells(term)
       /\ Decodes(SGR_0)
          => /\ term'.current_attrs = ZERO_ATTR
             /\ AllCells(term') = AllCells(term)
       /\ Decodes(<<Ch("x")>>)
          => WrittenCell(term') = Cell(<<Ch("x")>>, term.current_attrs)]_vars

\* C16, its case: the home cell holds a bold red "x" and the current
\* attributes are back to the default ones.
C16_Witness ==
    /\ AtRest
    /\ term.current_attrs = ZERO_ATTR
    /\ GlyphAt(Scr(term), 1, 1) = <<Ch("x")>>
    /\ Scr(term).lines[Scr(term).scrollback + 1].cells[1].attrs.bold = 1
    /\ Scr(term).lines[Scr(term).scrollback + 1].cells[1].attrs.fg = 31

\* C17: CSI 6 n writes ESC [ row ; col R with the cursor position to the
\* shell, CSI 5 n writes ESC [ 0 n.
C17_StatusReports ==
    [][/\ Decodes(DSR(Ch("6")))
          => term'.out = <<ESC, Ch("[")>> \o to_string(Scr(term).cursor_row)
                         \o <<Ch(";")>> \o to_string(Scr(term).cursor_col)
                         \o <<Ch("R")>>
       /\ Decodes(DSR(Ch("5")))
          => term'.out = <<ESC, Ch("["), Ch("0"), Ch("n")>>]_vars

\* C18: after OSC 0 ; t ended by BEL or by ESC \ the title is "t".
C18_TitleIsText ==
    [][\A c \in TitleChunks : Decodes(c) => term'.title = <<Ch("t")>>]_vars

(***************************************************************************)
(* Properties of the keyboard.                                             *)
(***************************************************************************)
\* The letter each cursor key ends with.
CursorKeyLetter ==
    [k \in CursorKeys |->
        CASE k = "ARROW_UP" -> Ch("A") [] k = "ARROW_DOWN" -> Ch("B")
          [] k = "ARROW_RIGHT" -> Ch("C") [] k = "ARROW_LEFT" -> Ch("D")
          [] k = "HOME_KEY" -> Ch("H") [] k = "END_KEY" -> Ch("F")]

CursorKeyBytes(k) ==
    <<ESC, IF term.app_keys # 0 THEN Ch("O") ELSE Ch("[")>> \o <<CursorKeyLetter[k]>>

\* C19: Up, Down, Right, Left, Home and End are written as ESC O and the
\* key's letter when app_keys is set, as ESC [ and the letter otherwise; a
\* wheel event is written as Up or Down, any other mouse event as nothing.
C19_CursorKeys ==
    [][/\ \A k \in CursorKeys :
             Keys(<<k>>) => term'.out = CursorKeyBytes(k)
       /\ Keys(<<"MOUSE_WHEEL_UP">>) => term'.out = CursorKeyBytes("ARROW_UP")
       /\ Keys(<<"MOUSE_WHEEL_DOWN">>) => term'.out = CursorKeyBytes("ARROW_DOWN")
       /\ Keys(<<"MOUSE_BUTTON_LEFT">>) => term'.out = << >>]_vars

\* C19, its case: in application-keys mode Home was pressed and ESC O H
\* went to the shell.
C19_Witness ==
    /\ term.app_keys = 1
    /\ term.out = <<ESC, Ch("O"), Ch("H")>>

\* C20: PageUp, PageDown, F1..F12 and Delete are each written as one
\* sequence of several bytes that begins with ESC, the same with app_keys
\* 0 and 1.
C20_FixedSequences ==
    [][\A k \in FunctionKeys \cup {"PAGE_UP", "PAGE_DOWN", "DEL_KEY"} :
          Keys(<<k>>)
          => /\ Len(term'.out) > 1
             /\ term'.out[1] = ESC
             /\ key_bytes([term EXCEPT !.app_keys = 0], k)
                    = key_bytes([term EXCEPT !.app_keys = 1], k)]_vars


(***************************************************************************)
(* Properties of the exit of the shell.                                    *)
(***************************************************************************)
\* C21: when the shell process has exited with status 123 and the registry's
\* update() has reaped the terminal, bad_shell was 1 at that moment and the
\* "Failed to start shell" report was made, whatever the order of
\* read_thread, sig() and update().
C21_BadShellReported ==
    (mpc \notin {"idle", "u_lock", "u_decode"} /\ wstatus = EXEC_FAILED) => cerr


(***************************************************************************)
(* Properties of the lines and cells of a screen.                          *)
(***************************************************************************)
\* The lines of s have exactly s.width cells each.
LinesHaveWidth(s) == \A i \in 1..Len(s.lines) : Len(s.lines[i].cells) = s.width

\* C22: after any mutation (cell write, clear, scroll, insert and delete,
\* set_dimensions to a larger or a smaller size) every line of a screen has
\* exactly as many cells as the screen is wide.
C22_LineLengthIsWidth ==
    ~TermUB(term) => LinesHaveWidth(term.main_screen) /\ LinesHaveWidth(term.alt_screen)


\* C23: set(row, col, g) with a glyph two columns wide at col < width leaves
\* an empty glyph and the attributes of the cell at col in the cell at
\* col + 1, whatever that cell held.
C23_WideGlyphBlanksTrail ==
    ~TermUB(term) =>
        \A r \in 1..Scr(term).height, c \in 1..(Scr(term).width - 1) :
            LET s1 == Screen_set(Scr(term), term.current_attrs, r, c, WIDE)
                line == s1.lines[s1.scrollback + r].cells
            IN /\ yed_get_glyph_width(WIDE) = 2
               /\ line[c].glyph = WIDE
               /\ line[c + 1].glyph = GLYPH_EMPTY
               /\ line[c + 1].attrs = line[c].attrs


(***************************************************************************)
(* Properties of the decoder: skipped sequences and termination.           *)
(***************************************************************************)
\* Sequences that change nothing on the screens: a device status query, a
\* title of one ASCII character and of one two-byte glyph, each with both
\* terminators, and a CSI aborted by BEL after its first parameter.
SkippedSeqs ==
    { DSR(Ch("5")),
      <<ESC, Ch("["), Ch("1"), CTRL_G>> }
    \cup { OSC_0(text, terminator) :
             text \in {<<Ch("t")>>, <<195, 169>>},
             terminator \in {<<CTRL_G>>, <<ESC, Ch("\\")>>} }

\* C24: a CSI or OSC sequence that ends inside the chunk, and a CSI aborted
\* by a byte that cannot belong to it, is skipped as exactly its own bytes:
\* none of them reaches a cell and the byte after it is decoded next.  Stated
\* with a glyph after the sequence: the screens end as if the glyph alone had
\* arrived.
C24_SequenceSpanIsSkipped ==
    (AtRest /\ inc = NoLeftover) =>
      \A q \in SkippedSeqs, junk \in Junk :
        LET st == [t |-> term, inc |-> inc] IN
        View(Feed(st, q \o <<Ch("x")>>, junk).t) = View(Feed(st, <<Ch("x")>>, junk).t)


\* C25: decoding a chunk ends after a number of steps bounded by the page and
\* the parameters: no handler is left running (in particular CSI 1 J with the
\* cursor in column 1, and TAB).
C25_DecodeTerminates == term.hung = 0

\* The cells of row i of s from column c1 through column c2.
CellsOf(s, i, c1, c2) == [c \in c1..c2 |-> s.lines[s.scrollback + i].cells[c]]

\* The glyphs of row i of s from column c1 through column c2 are empty.
Blanked(s, i, c1, c2) == \A c \in c1..c2 : GlyphAt(s, i, c) = GLYPH_EMPTY

\* C26: CSI 1 J blanks the visible rows above the cursor row and the cursor
\* row from column 1 through the cursor column; CSI 1 K blanks the cursor row
\* from column 1 through the cursor column; the cells right of the cursor and
\* the rows below stay as they were.
C26_EraseBackward ==
    [][\A q \in {CSI_1J, CSI_1K} :
         (Decodes(q) /\ CursorInBounds(Scr(term)))
         => LET s == Scr(term)
                s1 == Scr(term')
            IN /\ Blanked(s1, s.cursor_row, 1, s.cursor_col)
               /\ CellsOf(s1, s.cursor_row, s.cursor_col + 1, s.width)
                      = CellsOf(s, s.cursor_row, s.cursor_col + 1, s.width)
               /\ \A i \in 1..s.height :
                     /\ (i < s.cursor_row /\ q = CSI_1J)
                             => Blanked(s1, i, 1, s.width)
                     /\ (i > s.cursor_row \/ (i < s.cursor_row /\ q = CSI_1K))
                             => RowCells(s1, s.scrollback + i)
                                    = RowCells(s, s.scrollback + i)]_vars


(***************************************************************************)
(* Properties of the scroll region.                                        *)
(***************************************************************************)
\* s with no scroll region set, and with the whole page as its region.
Unset(s) == [s EXCEPT !.scroll_t = 0, !.scroll_b = 0]

WholePage(s) == [s EXCEPT !.scroll_t = 1, !.scroll_b = s.height]

\* The cells of all lines of s, of its history rows and of its visible rows.
Content(s) == <<[i \in 1..Len(s.lines) |-> s.lines[i].cells], s.ub>>

History(s) == [i \in 1..s.scrollback |-> s.lines[i].cells]

Page(s) == [i \in 1..s.height |-> s.lines[s.scrollback + i].cells]

\* The two screens of the terminal at rest.
Screens == IF AtRest THEN {term.main_screen, term.alt_screen} ELSE {}

\* scroll_down, insert_line and delete_line give the same lines with no
\* region and with the whole page as the region.
SameBelowScrollUp(s, attrs) ==
    /\ Content(Screen_scroll_down(Unset(s), attrs))
           = Content(Screen_scroll_down(WholePage(s), attrs))
    /\ \A r \in 1..s.height :
          /\ Content(Screen_insert_line(Unset(s), attrs, r))
                 = Content(Screen_insert_line(WholePage(s), attrs, r))
          /\ Content(Screen_delete_line(Unset(s), attrs, r))
                 = Content(Screen_delete_line(WholePage(s), attrs, r))

\* C27 as stated: scroll_up, scroll_down, insert_line and delete_line each
\* leave the same visible and history rows whether the scroll region is
\* unset or set to the whole page.
C27_UnsetIsWholePage ==
    \A s \in Screens :
        /\ SameBelowScrollUp(s, term.current_attrs)
        /\ Content(Screen_scroll_up(Unset(s), term.current_attrs))
               = Content(Screen_scroll_up(WholePage(s), term.current_attrs))

\* C27, amended: scroll_down, insert_line and delete_line do; scroll_up
\* leaves the same visible rows, but with the whole page as the region the
\* history is unchanged, while with no region the oldest history row is
\* dropped and the top visible row becomes the newest history row.
C27_UnsetIsWholePageButHistory ==
    \A s \in Screens :
        LET attrs == term.current_attrs
            u == Screen_scroll_up(Unset(s), attrs)
            w == Screen_scroll_up(WholePage(s), attrs)
        IN /\ SameBelowScrollUp(s, attrs)
           /\ u.ub = 0 /\ w.ub = 0
           /\ Page(u) = Page(w)
           /\ History(w) = History(s)
           /\ s.scrollback >= 1
                 => History(u) = Tail(History(s)) \o <<s.lines[s.scrollback + 1].cells>>

\* C27, its case: with no region set the line feeds of Fill have scrolled
\* the row of "x" into the history; the page holds "w" in its first row and
\* "y" in its last, so every operation moves rows that can be told apart.
C27_Witness ==
    /\ AtRest
    /\ Scr(term).scroll_t = 0 /\ Scr(term).scroll_b = 0 /\ Scr(term).height >= 2
    /\ Scr(term).scrollback >= 1
    /\ GlyphAt(Scr(term), 0, 1) = <<Ch("x")>>
    /\ GlyphAt(Scr(term), 1, 1) = <<Ch("w")>>
    /\ GlyphAt(Scr(term), Scr(term).height, 2) = <<Ch("y")>>


\* CSI L and CSI M: insert_line and delete_line at the cursor row.
CSI_L == <<ESC, Ch("["), Ch("L")>>

CSI_M == <<ESC, Ch("["), Ch("M")>>

\* C28: insert_line and delete_line at the cursor row (CSI L, CSI M) move
\* lines only inside the scroll region, wherever in the page the cursor row
\* is: the visible rows outside the region and the history rows stay as they
\* were.
C28_LineOpsStayInRegion ==
    [][\A q \in {CSI_L, CSI_M} :
         (Decodes(q) /\ CursorInBounds(Scr(term)))
         => LET s == Scr(term)
                s1 == Scr(term')
                top == s.scrollback + Screen_sctop(s)
                bot == s.scrollback + Screen_scbottom(s)
            IN \A i \in 1..Len(s.lines) :
                  (i < top \/ i > bot) => RowCells(s1, i) = RowCells(s, i)]_vars


\* The scroll region of both screens is in order.
RegionOrdered(t) ==
    /\ Screen_sctop(t.main_screen) <= Screen_scbottom(t.main_screen)
    /\ Screen_sctop(t.alt_screen) <= Screen_scbottom(t.alt_screen)

\* C29: CSI r leaves the cursor at (1,1); with two arguments of which the
\* second is smaller than the first the scroll region stays as it was;
\* otherwise the region becomes the arguments (0 for a missing one) clamped to
\* 0..height; and the top of the region is never below its bottom.
C29_SetScrollRegion ==
    [][/\ RegionOrdered(term) /\ RegionOrdered(term')
       /\ \A a \in RegionArgs :
            Decodes(DECSTBM(a))
            => LET s == Scr(term)
                   s1 == Scr(term')
                   top == IF Len(a) >= 1 THEN a[1] ELSE 0
                   bottom == IF Len(a) >= 2 THEN a[2] ELSE 0
               IN /\ s1.cursor_row = 1 /\ s1.cursor_col = 1
                  /\ IF Len(a) = 2 /\ bottom < top
                     THEN s1.scroll_t = s.scroll_t /\ s1.scroll_b = s.scroll_b
                     ELSE /\ s1.scroll_t = Min2(Max2(top, 0), s.height)
                          /\ s1.scroll_b = Min2(Max2(bottom, 0), s.height)]_vars

\* C29, its case: CSI 9 ; 9 r has set the region to the last row of a page
\* of two rows or more and the cursor is at (1,1).
C29_Witness ==
    /\ AtRest
    /\ Scr(term).height >= 2
    /\ Scr(term).scroll_t = Scr(term).height /\ Scr(term).scroll_b = Scr(term).height
    /\ Scr(term).cursor_row = 1 /\ Scr(term).cursor_col = 1


(***************************************************************************)
(* Properties of the alternate screen.                                     *)
(***************************************************************************)
\* The cells of all rows, the cursor and the scroll region of the primary
\* screen.
Primary(t) ==
    <<[i \in 1..Len(t.main_screen.lines) |-> t.main_screen.lines[i].cells],
      t.main_screen.cursor_row, t.main_screen.cursor_col,
      t.main_screen.scroll_t, t.main_screen.scroll_b>>

\* The switch CSI ? 1049 h / l as execute_CSI performs it: on entry the page
\* of the alternate screen is blank and its cursor is at (1,1), and after
\* either switch every line of the screen switched to is dirty.
SwitchEffects(t) ==
    /\ LET s1 == Scr(CSI_priv(t, <<1049>>, 1)) IN
          /\ CSI_priv(t, <<1049>>, 1)._screen = "alt"
          /\ s1.cursor_row = 1 /\ s1.cursor_col = 1
          /\ \A i \in 1..s1.height : RowBlank(s1, s1.scrollback + i)
    /\ \A on \in {0, 1} :
          LET s1 == Scr(CSI_priv(t, <<1049>>, on)) IN
          \A i \in 1..Len(s1.lines) : s1.lines[i].dirty = 1

\* What arrives after CSI ? 1049 h: any chunk but CSI ? 1049 l, and then a
\* glyph.
Between == AltChunks \ {ALT_OFF}

\* The primary screen after CSI ? 1049 h followed by a and a glyph.
PrimaryAfter(a, junk) ==
    Primary(Feed([t |-> term, inc |-> inc], ALT_ON \o a \o <<Ch("x")>>, junk).t)

\* C30 as stated: no input between CSI ? 1049 h and CSI ? 1049 l changes the
\* cells, history, cursor or scroll region of the primary screen; on entry
\* the page of the alternate screen is blank with the cursor at (1,1); after
\* each switch every line of the destination is dirty.
C30_AltScreenKeepsPrimary ==
    (AtRest /\ inc = NoLeftover) =>
        /\ SwitchEffects(term)
        /\ \A a \in Between, junk \in Junk : PrimaryAfter(a, junk) = Primary(term)

\* C30, amended: the same, for input without the soft reset CSI ! p, which
\* makes the primary screen the active one again without changing it.
C30_AltScreenKeepsPrimaryUntilReset ==
    (AtRest /\ inc = NoLeftover) =>
        /\ SwitchEffects(term)
        /\ \A a \in Between \ {SOFT_RESET}, junk \in Junk :
              PrimaryAfter(a, junk) = Primary(term)
        /\ \A junk \in Junk :
              LET t1 == Feed([t |-> term, inc |-> inc], ALT_ON \o SOFT_RESET, junk).t
              IN t1._screen = "main" /\ Primary(t1) = Primary(term)

\* C30, its case: the alternate screen is active and holds a glyph, and the
\* primary screen holds the one written before the switch.
C30_Witness ==
    /\ AtRest
    /\ term._screen = "alt"
    /\ GlyphAt(term.main_screen, 1, 1) = <<Ch("x")>>
    /\ GlyphAt(term.alt_screen, 1, 1) = <<Ch("x")>>

(***************************************************************************)
(* Properties of the attribute sequences.                                  *)
(***************************************************************************)
\* The current attributes after update() has decoded CSI a m.
AttrsAfter(a, junk) ==
    Feed([t |-> term, inc |-> inc], SGRSeq(a), junk).t.current_attrs

\* C31: SGR arguments are consumed left to right: 38 ; 5 ; n takes two
\* further arguments and 48 ; 2 ; r ; g ; b takes four, the argument after
\* them is applied as a code of its own (1 is bold, 4 is underline, and no
\* other flag changes), and CSI m without arguments resets the attributes.
C31_SgrArgumentsInOrder ==
    (AtRest /\ inc = NoLeftover) =>
        \A junk \in Junk :
            /\ AttrsAfter(SGR_256_bold, junk) =
                   [term.current_attrs EXCEPT !.fg_kind = ATTR_KIND_256, !.fg = 7,
                                              !.light_fg = 0, !.light_bg = 0,
                                              !.bold = 1]
            /\ AttrsAfter(SGR_rgb_underline, junk) =
                   [term.current_attrs EXCEPT !.bg_kind = ATTR_KIND_RGB,
                                              !.bg = RGB_32(1, 2, 3),
                                              !.light_fg = 0, !.light_bg = 0,
                                              !.underline = 1]
            /\ AttrsAfter(<< >>, junk) = ZERO_ATTR

\* C31, its case: a 256-colour foreground with bold has been decoded, and
\* after it the light background.
C31_Witness ==
    /\ AtRest /\ inc = NoLeftover
    /\ term.current_attrs.bold = 1
    /\ term.current_attrs.fg_kind = ATTR_KIND_256
    /\ term.current_attrs.fg = 7
    /\ term.current_attrs.light_bg = 1

\* C32: the parser records one argument per parameter position, an absent
\* one as 0: CSI 1 ; ; 31 m has the arguments 1, 0, 31, so that it sets bold,
\* resets and sets the foreground 31, which leaves bold clear.
C32_EmptyParameterIsZero ==
    [][Decodes(SGR_1_empty_31)
          => /\ term'.current_attrs = [ZERO_ATTR EXCEPT !.fg_kind = ATTR_KIND_16, !.fg = 31]
             /\ CSI(SGR_1_empty_31 \o <<0>>, 3).args = <<1, 0, 31>>]_vars

\* C38: SGR processing never reads csi.args[0] while the list is empty.
C38_SgrReadsNoMissingArgument == term.ub = 0

\* The argument lists that set the foreground colour, and those that set the
\* background colour.
FgLists ==
    { <<c>> : c \in (30..37) \cup (90..97) \cup {39} } \cup { <<38, 5, 7>>, <<38, 2, 1, 2, 3>> }

BgLists ==
    { <<c>> : c \in (40..47) \cup (100..107) \cup {49} } \cup { <<48, 5, 7>>, <<48, 2, 1, 2, 3>> }

FgOf(attrs) == <<attrs.fg_kind, attrs.fg, attrs.light_fg>>

BgOf(attrs) == <<attrs.bg_kind, attrs.bg, attrs.light_bg>>

\* C39: a code that sets the foreground colour leaves the kind, the value
\* and the light bit of the background as they are, and a code that sets the
\* background colour leaves those of the foreground.
C39_ColourCodesAreIndependent ==
    AtRest =>
        /\ \A a \in FgLists :
              BgOf(SGR(term, a).current_attrs) = BgOf(term.current_attrs)
        /\ \A a \in BgLists :
              FgOf(SGR(term, a).current_attrs) = FgOf(term.current_attrs)

(***************************************************************************)
(* Properties of the wake-up of the main thread.                           *)
(***************************************************************************)
\* C33: every byte the reader thread appends to data_buff is decoded in the
\* end without an outside event: a non-empty data_buff leads to an update()
\* that takes it, also when an update() returned early on delay_update.
C33_BufferedBytesAreDecoded == (data_buff # << >>) ~> (data_buff = << >>)

(***************************************************************************)
(* Properties of the registry with two terminals.                          *)
(***************************************************************************)
\* Both terminals are at rest.
BothAtRest ==
    /\ AtRest /\ inc = NoLeftover
    /\ data_buff_b = << >> /\ term_b.delay_update = 0 /\ ~TermUB(term_b)

\* Two runs of the registry's update(): the first terminal has received a1
\* and then a2, the second one b and then nothing.  The result is the first
\* terminal.
SecondRound(ra, rb, a2, junk) == update(ra.t, rb.inc, a2, junk).t

FirstRound(ra, a2, b, junk) ==
    SecondRound(ra, update(term_b, ra.inc, b, junk), a2, junk)

WithNeighbour(a1, a2, b, junk) ==
    FirstRound(update(term, inc, a1, junk), a2, b, junk)

\* The same terminal alone in the registry.
Alone(a1, a2, junk) == Feed(Feed([t |-> term, inc |-> inc], a1, junk), a2, junk).t

\* C34: the screens, cursors and attributes of a terminal depend on its own
\* byte stream only: after two chunks they are what they are without the
\* second terminal, whatever the second terminal has received between them.
C34_LeftoverStaysWithItsTerminal ==
    BothAtRest =>
        \A a1 \in TwoChunks, a2 \in TwoChunks, b \in TwoChunks \cup { << >> }, junk \in Junk :
            View(WithNeighbour(a1, a2, b, junk)) = View(Alone(a1, a2, junk))

(***************************************************************************)
(* Properties of the host buffer.                                          *)
(***************************************************************************)
\* Line i of the active screen is not dirty, and line i of the host buffer
\* is not the text write_to_buffer() writes for it.
StaleRow(t, i) ==
    /\ Scr(t).lines[i].dirty = 0
    /\ \/ i > Len(t.buffer)
       \/ t.buffer[i] # LineText(Scr(t).lines[i])

\* C35: every line of the active screen whose dirty flag is clear has in the
\* host buffer the text of its cells, trailing blanks trimmed.
C35_CleanRowsMatchBuffer ==
    \A i \in 1..Len(Scr(term).lines) : ~StaleRow(term, i)

(***************************************************************************)
(* Properties of the line widths.                                          *)
(***************************************************************************)
\* The lines of s have at least s.width cells each.
LinesCoverWidth(s) == \A i \in 1..Len(s.lines) : Len(s.lines[i].cells) >= s.width

\* C36: in every reachable state every line of each screen has at least
\* `width` cells, so that a cell in a column up to width exists in every line.
C36_LinesCoverWidth ==
    ~TermUB(term) => LinesCoverWidth(term.main_screen) /\ LinesCoverWidth(term.alt_screen)

\* C36, its case: the screen has been shrunk and has scrolled since: a line
\* made by the scroll has width cells, an older one has more.
C36_Witness ==
    /\ ~TermUB(term)
    /\ term.main_screen.width = InitWidth - 1
    /\ \E i \in 1..Len(term.main_screen.lines) :
          Len(term.main_screen.lines[i].cells) = InitWidth - 1
    /\ \E i \in 1..Len(term.main_screen.lines) :
          Len(term.main_screen.lines[i].cells) = InitWidth

(***************************************************************************)
(* Properties of the key-sequence handling.                                *)
(***************************************************************************)
\* C37: set_term_keys() is only called when key_sequences_saved is 0 and
\* restore_normal_keys() only when it is 1: neither assertion fails.
C37_KeySequencesPaired == state.mismatch = 0


(***************************************************************************)
(* Properties of a glyph at the end of the buffer.                         *)
(***************************************************************************)
\* C40: a complete two-byte glyph that is the last glyph of the bytes one
\* update() decodes is written to the screen by that update(): it is in the
\* cell the cursor was on (no wrap pending) and nothing is kept in
\* incomplete_utf8 for a later call.
C40_LastGlyphIsWritten ==
    [][(Decodes(<<195, 169>>) /\ term.wrap_next = 0)
       => /\ inc'.utf8 = << >>
          /\ GlyphAt(Scr(term'), row(term), col(term)) = <<195, 169>>]_vars

====
